---- MODULE Spec2Model ----
(***************************************************************************)
(* A model of the monitoring core of rust-monitor-JsWebHyper:              *)
(*   - ServerChanNotifier (src/notifiers/server_chan.rs): the key set and  *)
(*     the multi-key send;                                                 *)
(*   - the three Monitor implementations (src/monitors/*.rs): one check()  *)
(*     cycle of StaticMonitor, ApiMonitor and HyperliquidMonitor;          *)
(*   - HyperliquidMonitor::calculate_positions_hash as a pure function;    *)
(*   - MonitorApp (src/gui.rs): the task list and the operations that      *)
(*     start, stop, add, update and delete tasks.                          *)
(*                                                                         *)
(* Conventions.  Option<T> is a sequence of length 0 (None) or 1 (Some).   *)
(* A Rust String whose characters matter is a sequence of one-character    *)
(* strings; a message built by format! is the concatenation of its pieces. *)
(* Result<Option<Change>> is a record [kind, message, details] with kind   *)
(* "Err", "None" or "Some".  The Chinese texts of the change descriptions  *)
(* are written in English.                                                 *)
(***************************************************************************)
EXTENDS Integers, Sequences, FiniteSets, TLC

VARIABLES
    \* ---- ServerChanNotifier
    keys,           \* self.keys: HashSet<String>
    last_op,        \* the last operation applied to the notifier, and its argument
    attempted,      \* when the last operation was a send: the keys it handed to
                    \* sc_send, in call order
    send_ret,       \* when the last operation was a send: what it returned
    send_net,       \* when the last operation was a send: what the network did
                    \* with the request for each key it was asked for
    \* ---- one Monitor (a Box<dyn Monitor>)
    kind,           \* which implementation the monitor is
    notes,          \* self.notes
    monitor_spot,   \* HyperliquidMonitor.monitor_spot
    monitor_contract, \* HyperliquidMonitor.monitor_contract
    last_content,   \* StaticMonitor.last_content: Option<String>
    last_value,     \* ApiMonitor.last_value: Option<String>
    last_spot_trade_id,   \* HyperliquidMonitor.last_spot_trade_id: Option<String>
    last_positions_hash,  \* HyperliquidMonitor.last_positions_hash: Option<String>
    fetched,        \* what the network gave the last check()
    ret,            \* what the last check() returned
    selector_valid, \* ApiMonitor.selector is a well-formed JSONPath
    had_ok,         \* some check() of this monitor has returned Ok
    prev_last,      \* the stored baseline fields as they were before the last check()
    prev_matched,   \* a check() before the last one extracted a value (ApiMonitor)
    masked,         \* "pending": a check() returned a trade Change instead of
                    \* looking at the positions it watches, and no check() has got
                    \* the positions since; "looked": the last check() was the
                    \* first to get them after that; "no" otherwise
    \* ---- calculate_positions_hash applied to a list and a reordering of it
    hash_in,        \* the position list
    hash_perm,      \* a permutation of it
    hash_other,     \* the position list of another fetch
    hash_out,       \* <<hash of hash_in, hash of hash_perm, hash of hash_other>>,
                    \* once computed
    \* ---- MonitorApp
    tasks,          \* self.configs.tasks: Vec<TaskConfig>
    task_statuses,  \* self.task_statuses: Vec<TaskStatus>
    task_handles,   \* self.task_handles: Vec<Option<JoinHandle<()>>>, a handle
                    \* being the number of the poll loop it belongs to
    loops,          \* the poll loops spawned on self.runtime, in spawn order; an
                    \* aborted one is dropped with all it captured
    logged,         \* the entries the last operation gave to add_log
    dropped,        \* the poll loops the last operation aborted, as they were
    sop,            \* the last operation applied to the app, and its index
    panicked,       \* an operation indexed a Vec out of its bounds
    \* ---- the poll loops of the tasks at work
    notifier,       \* self.notifier: Option<Arc<ServerChanNotifier>>
    runs            \* for each poll loop spawned, in spawn order: where it is in
                    \* run_monitor_task, its channel and its message receiver

nvars == <<keys, last_op, attempted, send_ret, send_net>>
mvars == <<kind, notes, monitor_spot, monitor_contract, last_content, last_value,
           last_spot_trade_id, last_positions_hash, fetched, ret, selector_valid,
           had_ok, prev_last, prev_matched, masked>>
hvars == <<hash_in, hash_perm, hash_other, hash_out>>
svars == <<tasks, task_statuses, task_handles, loops, logged, dropped, sop, panicked>>
lvars == <<notifier, runs>>
vars == <<nvars, mvars, hvars, svars, lvars>>

(***************************************************************************)
(* Bounds of the model.                                                    *)
(***************************************************************************)
MaxKeyList == 2     \* longest key slice handed to new_with_keys
MaxPositions == 3   \* longest position list hashed
MaxMatches == 2     \* most values one JSONPath evaluation matches
MaxTasks == 2       \* longest task list
MaxLoops == 3       \* most poll loops ever spawned
MaxPolls == 2       \* most poll loops spawned when their steps are followed
ChannelCapacity == 2  \* room of the channel of a poll loop (32 in start_task)

None == <<>>
Some(x) == <<x>>
IsSome(o) == Len(o) = 1
Unwrap(o) == o[1]

RECURSIVE SeqToSet(_)
SeqToSet(s) == IF s = <<>> THEN {} ELSE {Head(s)} \cup SeqToSet(Tail(s))

RECURSIVE Count(_, _)
Count(s, x) ==
    IF s = <<>> THEN 0
    ELSE (IF Head(s) = x THEN 1 ELSE 0) + Count(Tail(s), x)

\* All sequences over S of length at most n.
SeqsUpTo(S, n) == UNION {[1..m -> S] : m \in 0..n}

\* All orderings of the finite set S (the orders a HashSet may iterate in).
RECURSIVE Orderings(_)
Orderings(S) ==
    IF S = {} THEN {<<>>}
    ELSE UNION {{<<x>> \o o : o \in Orderings(S \ {x})} : x \in S}

\* s is a prefix of t (str::starts_with).
StartsWith(t, s) == Len(s) <= Len(t) /\ SubSeq(t, 1, Len(s)) = s

(***************************************************************************)
(* ServerChanNotifier                                                      *)
(***************************************************************************)

\* The keys the model draws from.  "" is the empty key; "sctpXt" starts
\* with "sctp" but has no digits before the "t".
KeyUniverse == {"", "SCT1", "sctp7tA", "sctpXt"}

\* key.starts_with("sctp")
KeyStartsWithSctp(key) == key \in {"sctp7tA", "sctpXt"}

\* Regex sctp(\d+)t has a match in key
KeyMatchesSctpRegex(key) == key \in {"sctp7tA"}

\* ServerChanNotifier::new
New(key) == IF key # "" THEN {key} ELSE {}

\* ServerChanNotifier::new_with_keys
RECURSIVE NewWithKeys(_)
NewWithKeys(ks) ==
    IF ks = <<>> THEN {}
    ELSE (IF Head(ks) # "" THEN {Head(ks)} ELSE {}) \cup NewWithKeys(Tail(ks))

\* ServerChanNotifier::add_key
AddKeyTo(ks, key) == IF key # "" THEN ks \cup {key} ELSE ks

\* ServerChanNotifier::remove_key
RemoveKeyFrom(ks, key) == ks \ {key}

\* What the provider side can do with one request.
\*   "ok"          2xx, JSON body with code 0
\*   "transport"   the request itself fails
\*   "status"      a non-2xx status
\*   "read"        the body cannot be read
\*   "not_sent"    no request was made
\*   "code"        2xx, JSON body with a code other than 0 (or none)
\*   "unparsable"  2xx, body that is not JSON
NetOutcomes == {"ok", "transport", "status", "read", "code", "unparsable"}

\* ServerChanNotifier::sc_send, the url: there is none for a key that starts
\* with "sctp" and does not match the regex, and no request is made.
KeyHasUrl(key) == ~KeyStartsWithSctp(key) \/ KeyMatchesSctpRegex(key)

\* What can happen to the request sc_send makes for key.
NetFor(key) == IF KeyHasUrl(key) THEN NetOutcomes ELSE {"not_sent"}

\* ServerChanNotifier::sc_send: Err with a reason, or Ok with the body.
ScSend(key, net) ==
    IF ~KeyHasUrl(key)
        THEN [ok |-> FALSE, text |-> "ServerChan key format is incorrect"]
    ELSE IF net = "transport"
        THEN [ok |-> FALSE, text |-> "Failed to send notification request"]
    ELSE IF net = "status"
        THEN [ok |-> FALSE, text |-> "Failed to send notification request, status code"]
    ELSE IF net = "read"
        THEN [ok |-> FALSE, text |-> "Failed to read response content"]
    ELSE [ok |-> TRUE, text |-> net]

\* errors.join("; ")
RECURSIVE JoinErrors(_)
JoinErrors(errors) ==
    IF errors = <<>> THEN <<>>
    ELSE IF Len(errors) = 1 THEN Head(errors)
    ELSE Head(errors) \o <<"; ">> \o JoinErrors(Tail(errors))

\* format!("Failed to send notification to key {}: {}", key, reason)
KeyError(key, reason) == <<"Failed to send notification to key ", key, ": ", reason>>

\* The for loop of send over the keys in iteration order `order`, net[k]
\* being what the network does with key k.  Returns the keys handed to
\* sc_send and the value returned.  The ? on serde_json::from_str leaves the
\* function from inside the loop.
RECURSIVE SendLoop(_, _, _, _)
SendLoop(order, net, done, errors) ==
    IF order = <<>>
        THEN [attempted |-> done,
              ret |-> IF errors # <<>>
                      THEN [ok |-> FALSE,
                            message |-> <<"Some notifications failed: ">> \o JoinErrors(errors)]
                      ELSE [ok |-> TRUE, message |-> <<>>]]
    ELSE LET key == Head(order)
             r == ScSend(key, net[key])
         IN IF ~r.ok
                THEN SendLoop(Tail(order), net, Append(done, key),
                              Append(errors, KeyError(key, r.text)))
            ELSE IF r.text = "unparsable"
                THEN [attempted |-> Append(done, key),
                      ret |-> [ok |-> FALSE, message |-> <<"Failed to parse response: ">>]]
            ELSE IF r.text = "code"
                THEN SendLoop(Tail(order), net, Append(done, key),
                              Append(errors, KeyError(key, "provider message")))
            ELSE SendLoop(Tail(order), net, Append(done, key), errors)

\* send without its test for an empty key set.
SendResultNoEmptyTest(ks, order, net) == SendLoop(order, net, <<>>, <<>>)

\* <ServerChanNotifier as Notifier>::send
SendResult(ks, order, net) ==
    IF ks = {}
        THEN [attempted |-> <<>>,
              ret |-> [ok |-> FALSE, message |-> <<"No ServerChan keys configured">>]]
    ELSE SendLoop(order, net, <<>>, <<>>)

NoSend == [ok |-> TRUE, message |-> <<"(no send yet)">>]

NotifierInit ==
    /\ \/ \E key \in KeyUniverse : keys = New(key)
       \/ \E ks \in SeqsUpTo(KeyUniverse, MaxKeyList) : keys = NewWithKeys(ks)
    /\ last_op = [name |-> "new", key |-> ""]
    /\ attempted = <<>>
    /\ send_ret = NoSend
    /\ send_net = <<>>

NotifierIdle ==
    /\ keys = {}
    /\ last_op = [name |-> "new", key |-> ""]
    /\ attempted = <<>>
    /\ send_ret = NoSend
    /\ send_net = <<>>

AddKey ==
    \E key \in KeyUniverse :
        /\ keys' = AddKeyTo(keys, key)
        /\ last_op' = [name |-> "add_key", key |-> key]
        /\ attempted' = <<>>
        /\ send_ret' = NoSend
        /\ send_net' = <<>>
        /\ UNCHANGED <<mvars, hvars, svars, lvars>>

RemoveKey ==
    \E key \in KeyUniverse :
        /\ keys' = RemoveKeyFrom(keys, key)
        /\ last_op' = [name |-> "remove_key", key |-> key]
        /\ attempted' = <<>>
        /\ send_ret' = NoSend
        /\ send_net' = <<>>
        /\ UNCHANGED <<mvars, hvars, svars, lvars>>

Send ==
    \E order \in Orderings(keys),
       net \in {n \in [keys -> NetOutcomes \cup {"not_sent"}] : \A k \in keys : n[k] \in NetFor(k)} :
        LET r == SendResult(keys, order, net)
        IN /\ attempted' = r.attempted
           /\ send_net' = [k \in SeqToSet(r.attempted) |-> net[k]]
           /\ send_ret' = r.ret
           /\ last_op' = [name |-> "send", key |-> ""]
           /\ UNCHANGED <<keys, mvars, hvars, svars, lvars>>

NotifierNext == AddKey \/ RemoveKey \/ Send

(***************************************************************************)
(* Strings                                                                 *)
(***************************************************************************)

\* str::trim().is_empty(): every character is white space.
IsBlank(s) == \A i \in 1..Len(s) : s[i] = " "

\* The characters of the literal "start: ".
StartPrefix == <<"s", "t", "a", "r", "t", ":", " ">>

\* The url / address of the monitored source.
Endpoint == <<"h", "t", "t", "p", ":", "/", "/", "x">>

\* The notes a task configuration may carry.
NotesUniverse == {<<>>, <<" ">>, <<"s">>, <<"p", "g">>}

\* new / new_with_notes of all three monitors: notes default to the url
\* (address) and are replaced by non-blank configured notes.
NewWithNotes(url, cfg_notes) == IF ~IsBlank(cfg_notes) THEN cfg_notes ELSE url

RetErr(text) == [kind |-> "Err", message |-> text, details |-> <<>>]
RetNone == [kind |-> "None", message |-> <<>>, details |-> <<>>]
RetSome(message, details) == [kind |-> "Some", message |-> message, details |-> details]
NoRet == [kind |-> "NotCalled", message |-> <<>>, details |-> <<>>]

(***************************************************************************)
(* StaticMonitor                                                           *)
(***************************************************************************)

\* Page contents, each a sequence of atomic byte strings.
PageA == <<"<html>", "<title>", "A", "</title>", "hello", "</html>">>
PageB == <<"<html>", "<title>", "B", "</title>", "hello", "</html>">>
PageLong == <<"<html>", "<title>", "A", "</title>", "hello", "hello", "</html>">>
PageOpen == <<"<title>", "A">>
PagePlain == <<"hello">>
Contents == {PageA, PageB, PageLong, PageOpen, PagePlain}

\* str::len of one atomic byte string.
TokenLen(tok) ==
    CASE tok = "<html>" -> 6
      [] tok = "</html>" -> 7
      [] tok = "<title>" -> 7
      [] tok = "</title>" -> 8
      [] tok = "hello" -> 5
      [] OTHER -> 1

\* str::len
RECURSIVE ByteLen(_)
ByteLen(content) ==
    IF content = <<>> THEN 0 ELSE TokenLen(Head(content)) + ByteLen(Tail(content))

\* str::find of a marker: index of its first occurrence, 0 when absent.
RECURSIVE FindFrom(_, _, _)
FindFrom(content, marker, i) ==
    IF i > Len(content) THEN 0
    ELSE IF content[i] = marker THEN i
    ELSE FindFrom(content, marker, i + 1)

\* extract_between
ExtractBetween(content, start_marker, end_marker) ==
    LET start_idx == FindFrom(content, start_marker, 1)
    IN IF start_idx = 0 THEN None
       ELSE LET after == SubSeq(content, start_idx + 1, Len(content))
                end_idx == FindFrom(after, end_marker, 1)
            IN IF end_idx = 0 THEN None ELSE Some(SubSeq(after, 1, end_idx - 1))

UnwrapOr(o, default) == IF IsSome(o) THEN Unwrap(o) ELSE default

\* StaticMonitor::generate_change_description
StaticChangeDescription(old_content, new_content) ==
    LET old_len == ByteLen(old_content)
        new_len == ByteLen(new_content)
        by_len == IF new_len > old_len
                     THEN <<"content grew: ", ToString(old_len), " -> ", ToString(new_len),
                            " bytes (+", ToString(new_len - old_len), ")\n">>
                  ELSE IF new_len < old_len
                     THEN <<"content shrank: ", ToString(old_len), " -> ", ToString(new_len),
                            " bytes (-", ToString(old_len - new_len), ")\n">>
                  ELSE <<"same length, content changed\n">>
        has_titles == FindFrom(old_content, "<title>", 1) # 0
                      /\ FindFrom(new_content, "<title>", 1) # 0
        old_title == UnwrapOr(ExtractBetween(old_content, "<title>", "</title>"), <<"not found">>)
        new_title == UnwrapOr(ExtractBetween(new_content, "<title>", "</title>"), <<"not found">>)
    IN by_len \o (IF has_titles /\ old_title # new_title
                     THEN <<"title changed: '">> \o old_title \o <<"' -> '">> \o new_title
                          \o <<"'\n">>
                  ELSE <<>>)

\* What StaticMonitor::get_content can come back with.
StaticFetches ==
    {[out |-> o, content |-> <<>>] : o \in {"transport", "status", "read"}}
    \cup {[out |-> "ok", content |-> c] : c \in Contents}

\* The shape of StaticMonitor::check with two deviations switched on or
\* off, for the two variants below.
StaticCheckBody(last, nts, fetch, silent_first, keep_old) ==
    IF fetch.out # "ok"
        THEN [last |-> last, ret |-> RetErr(<<"Failed to get webpage content: ", fetch.out>>)]
    ELSE IF IsSome(last)
        THEN IF Unwrap(last) # fetch.content
                THEN LET d == StaticChangeDescription(Unwrap(last), fetch.content)
                     IN [last |-> IF keep_old THEN last ELSE Some(fetch.content),
                         ret |-> RetSome(nts \o <<" ">> \o d, <<"Changes:\n">> \o d)]
             ELSE [last |-> last, ret |-> RetNone]
    ELSE [last |-> Some(fetch.content),
          ret |-> IF silent_first THEN RetNone
                  ELSE RetSome(StartPrefix \o nts, <<"Initial content length: ">>)]

\* check taking the first content as baseline without reporting it.
StaticCheckSilentFirst(last, nts, fetch) == StaticCheckBody(last, nts, fetch, TRUE, FALSE)

\* check reporting a change without storing the new content.
StaticCheckKeepsOld(last, nts, fetch) == StaticCheckBody(last, nts, fetch, FALSE, TRUE)

\* StaticMonitor::check: the new last_content and the value returned.
StaticCheck(last, nts, fetch) ==
    IF fetch.out # "ok"
        THEN [last |-> last, ret |-> RetErr(<<"Failed to get webpage content: ", fetch.out>>)]
    ELSE IF IsSome(last)
        THEN IF Unwrap(last) # fetch.content
                THEN LET d == StaticChangeDescription(Unwrap(last), fetch.content)
                     IN [last |-> Some(fetch.content),
                         ret |-> RetSome(nts \o <<" ">> \o d,
                                         <<"Changes:\n">> \o d
                                         \o <<"\n\nCurrent content length: ",
                                              ToString(ByteLen(fetch.content)),
                                              " bytes\n\nPrevious content length: ",
                                              ToString(ByteLen(Unwrap(last))), " bytes">>)]
             ELSE [last |-> last, ret |-> RetNone]
    ELSE [last |-> Some(fetch.content),
          ret |-> RetSome(StartPrefix \o nts,
                          <<"Initial content length: ", ToString(ByteLen(fetch.content)),
                            " bytes">>)]

(***************************************************************************)
(* ApiMonitor                                                              *)
(***************************************************************************)

\* JSON values a selector can match: strings and numbers, text as characters.
JsonValues == {[t |-> "num", s |-> <<"1">>], [t |-> "str", s |-> <<"1">>],
               [t |-> "str", s |-> <<"u", "p">>]}

\* serde_json::Value::to_string
ValueToString(v) == IF v.t = "str" THEN <<"\"">> \o v.s \o <<"\"">> ELSE v.s

\* str::trim_matches('"')
RECURSIVE TrimQuotes(_)
TrimQuotes(s) ==
    IF s = <<>> THEN s
    ELSE IF Head(s) = "\"" THEN TrimQuotes(Tail(s))
    ELSE IF s[Len(s)] = "\"" THEN TrimQuotes(SubSeq(s, 1, Len(s) - 1))
    ELSE s

\* values.join(", ")
RECURSIVE JoinValues(_)
JoinValues(results) ==
    IF results = <<>> THEN <<>>
    ELSE IF Len(results) = 1 THEN TrimQuotes(ValueToString(Head(results)))
    ELSE TrimQuotes(ValueToString(Head(results))) \o <<",", " ">> \o JoinValues(Tail(results))

\* ApiMonitor::check, the match on jsonpath::select: the extracted string.
ResultStr(results) ==
    IF results = <<>> THEN None
    ELSE IF Len(results) = 1 THEN Some(TrimQuotes(ValueToString(results[1])))
    ELSE Some(<<"[">> \o JoinValues(results) \o <<"]">>)

\* ApiMonitor::generate_change_description.  Every value of the model is
\* shorter than the 100 bytes above which the item-by-item branch is taken.
ApiChangeDescription(old_value, new_value) == <<"data updated">>

\* What the request of ApiMonitor::check can come back with; for "ok",
\* results is what the selector matches in the JSON received.
ApiFetches ==
    {[out |-> o, results |-> <<>>] : o \in {"transport", "status", "bad_json"}}
    \cup {[out |-> "ok", results |-> r] : r \in SeqsUpTo(JsonValues, MaxMatches)}

ApiDetails(text) == <<"URL: ">> \o Endpoint \o <<"\nSelector: $.x\n\n", text>>

\* check treating an extraction that matches nothing as an error.
ApiCheckNoMatchIsErr(last, nts, sel_ok, fetch) ==
    IF fetch.out # "ok" \/ ~sel_ok \/ fetch.results = <<>>
        THEN [last |-> last, ret |-> RetErr(<<"no data">>)]
    ELSE [last |-> ResultStr(fetch.results),
          ret |-> IF last = ResultStr(fetch.results) THEN RetNone
                  ELSE RetSome(nts \o <<" ">>, <<>>)]

\* check forgetting the stored value when the selector matches nothing
\* after it had matched.
ApiCheckForgetsLostValue(last, nts, sel_ok, fetch) ==
    IF fetch.out # "ok" \/ ~sel_ok
        THEN [last |-> last, ret |-> RetErr(<<"no data">>)]
    ELSE LET result == ResultStr(fetch.results)
         IN IF IsSome(result)
                THEN [last |-> result,
                      ret |-> IF last = result THEN RetNone
                              ELSE RetSome(nts \o <<" ">>, <<>>)]
            ELSE [last |-> None,
                  ret |-> RetSome(nts \o <<" - Data extraction failed">>, <<>>)]

\* ApiMonitor::check: the new last_value and the value returned.
ApiCheck(last, nts, sel_ok, fetch) ==
    IF fetch.out = "transport"
        THEN [last |-> last,
              ret |-> RetSome(<<"API request failed: ">>, <<"URL: ">> \o Endpoint)]
    ELSE IF fetch.out = "status"
        THEN [last |-> last,
              ret |-> RetSome(<<"API returned status code ">>, <<"URL: ">> \o Endpoint)]
    ELSE IF fetch.out = "bad_json"
        THEN [last |-> last,
              ret |-> RetSome(<<"Failed to parse JSON response: ">>, <<"URL: ">> \o Endpoint)]
    ELSE IF ~sel_ok
        THEN [last |-> last, ret |-> RetErr(<<"JSONPath selector error: ">>)]
    ELSE LET result == ResultStr(fetch.results)
         IN IF ~IsSome(last)
                THEN IF IsSome(result)
                        THEN [last |-> result,
                              ret |-> RetSome(StartPrefix \o nts,
                                              <<"JSONPath: $.x\nInitial value: ">>
                                              \o Unwrap(result))]
                     ELSE [last |-> None,
                           ret |-> RetSome(StartPrefix \o nts,
                                           ApiDetails("The JSONPath selector did not match any data."))]
            ELSE IF IsSome(result)
                THEN IF Unwrap(last) # Unwrap(result)
                        THEN LET d == ApiChangeDescription(Unwrap(last), Unwrap(result))
                             IN [last |-> result,
                                 ret |-> RetSome(nts \o <<" ">> \o d,
                                                 <<"JSONPath: $.x\n\nChanges:\n">> \o d
                                                 \o <<"\n\nCurrent value:\n">> \o Unwrap(result)
                                                 \o <<"\n\nPrevious value:\n">> \o Unwrap(last))]
                     ELSE [last |-> result, ret |-> RetNone]
            ELSE [last |-> last,
                  ret |-> RetSome(nts \o <<" - Data extraction failed">>,
                                  ApiDetails("The JSONPath selector did not match any data after a previous successful match."))]

(***************************************************************************)
(* HyperliquidMonitor                                                      *)
(***************************************************************************)

\* Decimal numbers are integers counting thousandths.  No value of the model
\* lies exactly between two neighbours of the precision it is printed with,
\* so rounding to nearest is what format! does with it.
Pad2(n) == IF n < 10 THEN "0" \o ToString(n) ELSE ToString(n)
Pad3(n) == IF n < 10 THEN "00" \o ToString(n)
           ELSE IF n < 100 THEN "0" \o ToString(n) ELSE ToString(n)
Abs(v) == IF v < 0 THEN -v ELSE v
Sign(v) == IF v < 0 THEN "-" ELSE ""

\* format!("{:.0}", v)
Fmt0(v) == Sign(v) \o ToString((Abs(v) + 500) \div 1000)

\* format!("{:.2}", v)
Fmt2(v) ==
    LET h == (Abs(v) + 5) \div 10
    IN Sign(v) \o ToString(h \div 100) \o "." \o Pad2(h % 100)

\* format!("{:.4}", v)
Fmt4(v) == Sign(v) \o ToString(Abs(v) \div 1000) \o "." \o Pad3(Abs(v) % 1000) \o "0"

\* PositionInfo values a feed may hold.
PosBtcLong ==
    [asset |-> "BTC", leverage |-> 5000, position_type |-> "long", entry_price |-> 100000,
     mark_price |-> 101000, size |-> 1500, position_value |-> 151500, pnl_percentage |-> 1000]
\* PosBtcLong a little larger and at another leverage and mark price.
PosBtcLongNear ==
    [asset |-> "BTC", leverage |-> 10000, position_type |-> "long", entry_price |-> 100000,
     mark_price |-> 99000, size |-> 1502, position_value |-> 148698, pnl_percentage |-> -1000]
PosBtcShort ==
    [asset |-> "BTC", leverage |-> 5000, position_type |-> "short", entry_price |-> 100000,
     mark_price |-> 101000, size |-> 1500, position_value |-> 151500, pnl_percentage |-> -1000]
PosEthLong ==
    [asset |-> "ETH", leverage |-> 3000, position_type |-> "long", entry_price |-> 20010,
     mark_price |-> 20010, size |-> 240, position_value |-> 4802, pnl_percentage |-> 0]
PositionUniverse == {PosBtcLong, PosBtcLongNear, PosBtcShort, PosEthLong}
\* PosBtcLong with a size that differs in the second decimal.
PosBtcLongMore ==
    [asset |-> "BTC", leverage |-> 5000, position_type |-> "long", entry_price |-> 100000,
     mark_price |-> 101000, size |-> 1510, position_value |-> 152510, pnl_percentage |-> 1000]
\* PosBtcLong entered at a price that differs in the second decimal.
PosBtcLongDearer ==
    [asset |-> "BTC", leverage |-> 5000, position_type |-> "long", entry_price |-> 100010,
     mark_price |-> 101000, size |-> 1500, position_value |-> 151500, pnl_percentage |-> 990]

\* PosBtcLong entered at a price that differs in the third decimal.
PosBtcLongAbout ==
    [asset |-> "BTC", leverage |-> 5000, position_type |-> "long", entry_price |-> 100004,
     mark_price |-> 101000, size |-> 1500, position_value |-> 151500, pnl_percentage |-> 996]

\* The position lists get_contract_positions may return to a monitor.
PositionFeeds == {<<>>, <<PosBtcLong>>, <<PosBtcLongNear>>, <<PosBtcLongAbout>>,
                  <<PosBtcShort>>, <<PosBtcLong, PosEthLong>>, <<PosEthLong, PosBtcLong>>}

\* HyperliquidMonitor::calculate_positions_hash.  The hasher is fed, for
\* each position in list order, the asset, the size and the entry price
\* printed with two decimals, and the direction; str::hash ends every string
\* with a 0xff byte, so the byte stream determines the strings written.  The
\* 64-bit SipHash of the stream is represented by the stream itself:
\* DefaultHasher (SipHash-1-3, zero keys) gives the streams of the position
\* lists of this model pairwise different values.
RECURSIVE HasherWrites(_)
HasherWrites(positions) ==
    IF positions = <<>> THEN <<>>
    ELSE LET pos == Head(positions)
         IN <<pos.asset, Fmt2(pos.size), Fmt2(pos.entry_price), pos.position_type>>
            \o HasherWrites(Tail(positions))

\* calculate_positions_hash feeding the hasher everything but the direction.
RECURSIVE CalculatePositionsHashNoDirection(_)
CalculatePositionsHashNoDirection(positions) ==
    IF positions = <<>> THEN <<>>
    ELSE LET pos == Head(positions)
         IN <<pos.asset, Fmt2(pos.size), Fmt2(pos.entry_price)>>
            \o CalculatePositionsHashNoDirection(Tail(positions))

\* calculate_positions_hash feeding the hasher the leverage and the mark
\* price too.
RECURSIVE CalculatePositionsHashOfAll(_)
CalculatePositionsHashOfAll(positions) ==
    IF positions = <<>> THEN <<>>
    ELSE LET pos == Head(positions)
         IN <<pos.asset, Fmt2(pos.size), Fmt2(pos.entry_price), pos.position_type,
              Fmt0(pos.leverage), Fmt2(pos.mark_price)>>
            \o CalculatePositionsHashOfAll(Tail(positions))

CalculatePositionsHash(positions) == HasherWrites(positions)

\* Entries of the userFills array.  tid is what ["tid"].as_str() gives: None
\* when the field is not a JSON string.
TradeEthBuy == [tid |-> Some("t1"), asset |-> "ETH", side |-> "B", px |-> "20.01",
                sz |-> "0.24", time |-> 1500]
TradeBtcSell == [tid |-> Some("t2"), asset |-> "BTC", side |-> "A", px |-> "100.0",
                 sz |-> "1.5", time |-> 2999]
TradeNumericTid == [tid |-> None, asset |-> "BTC", side |-> "B", px |-> "100.0",
                    sz |-> "1.5", time |-> 3000]
\* The userFills arrays a request may return, latest trade first.
TradeFeeds == {<<>>, <<TradeEthBuy>>, <<TradeBtcSell>>, <<TradeBtcSell, TradeEthBuy>>,
               <<TradeNumericTid>>}

\* format_timestamp: the local time of timestamp / 1000 seconds, printed by
\* its count of seconds.
FormatTimestamp(timestamp) == ToString(timestamp \div 1000) \o "s"

\* What get_spot_trades, followed by as_array, can come back with.
SpotFetches ==
    {[out |-> o, trades |-> <<>>] : o \in {"transport", "status", "bad_json", "not_array"}}
    \cup {[out |-> "ok", trades |-> t] : t \in TradeFeeds}

\* What get_contract_positions can come back with.
PositionFetches ==
    {[out |-> o, positions |-> <<>>] : o \in {"transport", "status", "bad_json"}}
    \cup {[out |-> "ok", positions |-> l] : l \in PositionFeeds}

\* A request the check() did not make.
NotRequested == [out |-> "not_requested", results |-> <<>>]

TradeText(trade) ==
    <<"User: ">> \o Endpoint \o
    <<"\nAsset: ", trade.asset, "\nSide: ", IF trade.side = "B" THEN "Buy" ELSE "Sell",
      "\nPrice: ", trade.px, "\nSize: ", trade.sz, "\nTime: ", FormatTimestamp(trade.time),
      "\nTransaction ID: ", Unwrap(trade.tid)>>

\* check_spot_trades reporting a new trade without storing its identifier.
CheckSpotTradesKeepsOldId(spot_on, last_id, nts, fetch) ==
    IF ~spot_on
        THEN [last |-> last_id, ret |-> RetNone, requested |-> FALSE]
    ELSE IF fetch.out # "ok"
        THEN [last |-> last_id, ret |-> RetErr(<<"API request failed: ", fetch.out>>),
              requested |-> TRUE]
    ELSE IF fetch.trades = <<>>
        THEN [last |-> last_id, ret |-> RetNone, requested |-> TRUE]
    ELSE LET latest_trade == fetch.trades[1]
         IN IF ~IsSome(latest_trade.tid)
                THEN [last |-> last_id,
                      ret |-> RetErr(<<"Transaction ID format is incorrect">>),
                      requested |-> TRUE]
            ELSE IF ~IsSome(last_id)
                THEN [last |-> latest_trade.tid,
                      ret |-> RetSome(<<"Started monitoring: ">> \o nts,
                                      <<"Initial monitoring data:\n">>),
                      requested |-> TRUE]
            ELSE IF Unwrap(last_id) # Unwrap(latest_trade.tid)
                THEN [last |-> last_id,
                      ret |-> RetSome(nts \o <<" - ", "New ">>, <<"Changed content:\n">>),
                      requested |-> TRUE]
            ELSE [last |-> last_id, ret |-> RetNone, requested |-> TRUE]

\* HyperliquidMonitor::check_spot_trades: the new last_spot_trade_id, the
\* value returned, and whether get_spot_trades was called.
CheckSpotTrades(spot_on, last_id, nts, fetch) ==
    IF ~spot_on
        THEN [last |-> last_id, ret |-> RetNone, requested |-> FALSE]
    ELSE IF fetch.out \in {"transport", "status", "bad_json"}
        THEN [last |-> last_id, ret |-> RetErr(<<"API request failed: ", fetch.out>>),
              requested |-> TRUE]
    ELSE IF fetch.out = "not_array"
        THEN [last |-> last_id, ret |-> RetErr(<<"API returned data format is incorrect">>),
              requested |-> TRUE]
    ELSE IF fetch.trades = <<>>
        THEN [last |-> last_id, ret |-> RetNone, requested |-> TRUE]
    ELSE LET latest_trade == fetch.trades[1]
         IN IF ~IsSome(latest_trade.tid)
                THEN [last |-> last_id,
                      ret |-> RetErr(<<"Transaction ID format is incorrect">>),
                      requested |-> TRUE]
            ELSE IF IsSome(last_id)
                THEN IF Unwrap(last_id) # Unwrap(latest_trade.tid)
                        THEN [last |-> latest_trade.tid,
                              ret |-> RetSome(nts \o <<" - ", "New ", latest_trade.asset, " ",
                                                      IF latest_trade.side = "B" THEN "Buy"
                                                      ELSE "Sell">>,
                                              <<"Changed content:\n">> \o TradeText(latest_trade)
                                              \o <<"\n\nPrevious transaction ID: ",
                                                   Unwrap(last_id), "\n\nNotes: ">> \o nts),
                              requested |-> TRUE]
                     ELSE [last |-> last_id, ret |-> RetNone, requested |-> TRUE]
            ELSE [last |-> latest_trade.tid,
                  ret |-> RetSome(<<"Started monitoring: ">> \o nts,
                                  <<"Initial monitoring data:\n">> \o TradeText(latest_trade)
                                  \o <<"\n\nNotes: ">> \o nts),
                  requested |-> TRUE]

\* The per-position block of the details text.
RECURSIVE PositionDetails(_)
PositionDetails(positions) ==
    IF positions = <<>> THEN <<>>
    ELSE LET pos == Head(positions)
         IN <<"Asset: ", pos.asset, "\nLeverage: ", Fmt0(pos.leverage), "x\nType: ",
              pos.position_type, "\nEntry price: ", Fmt2(pos.entry_price),
              "\nMark price: ", Fmt2(pos.mark_price), "\nPosition size: ", Fmt4(pos.size),
              "\nPosition value: $", Fmt2(pos.position_value), "\nPNL: ",
              Fmt2(pos.pnl_percentage), "%\n\n">>
            \o PositionDetails(Tail(positions))

\* The title line made from the first position.
PositionTitle(pos) ==
    <<"Asset:", pos.asset, " Lever:", Fmt0(pos.leverage), "x Type:", pos.position_type,
      " Entry price:", Fmt2(pos.entry_price)>>

\* check_contract_positions taking the first position list as baseline
\* without reporting it.
CheckContractPositionsSilentFirst(contract_on, last_hash, nts, fetch) ==
    IF ~contract_on
        THEN [last |-> last_hash, ret |-> RetNone, requested |-> FALSE]
    ELSE IF fetch.out # "ok"
        THEN [last |-> last_hash, ret |-> RetErr(<<"API request failed: ", fetch.out>>),
              requested |-> TRUE]
    ELSE LET positions_hash == CalculatePositionsHash(fetch.positions)
         IN IF IsSome(last_hash) /\ Unwrap(last_hash) # positions_hash
                THEN [last |-> Some(positions_hash),
                      ret |-> RetSome(nts \o <<" - ">>, <<"User position changes:\n\n">>),
                      requested |-> TRUE]
            ELSE [last |-> Some(positions_hash), ret |-> RetNone, requested |-> TRUE]

\* HyperliquidMonitor::check_contract_positions: the new
\* last_positions_hash, the value returned, and whether
\* get_contract_positions was called.
CheckContractPositions(contract_on, last_hash, nts, fetch) ==
    IF ~contract_on
        THEN [last |-> last_hash, ret |-> RetNone, requested |-> FALSE]
    ELSE IF fetch.out # "ok"
        THEN [last |-> last_hash, ret |-> RetErr(<<"API request failed: ", fetch.out>>),
              requested |-> TRUE]
    ELSE LET positions == fetch.positions
             positions_hash == CalculatePositionsHash(positions)
         IN IF ~IsSome(last_hash)
                THEN [last |-> Some(positions_hash),
                      ret |-> IF positions = <<>>
                              THEN RetSome(<<"Started monitoring: ">> \o nts,
                                           <<"Started monitoring user: ">> \o Endpoint
                                           \o <<"\n\nNo active positions currently",
                                                "\n\nNotes: ">> \o nts)
                              ELSE RetSome(<<"Started monitoring: ">> \o nts,
                                           <<"User's current positions:\n\n">>
                                           \o PositionDetails(positions)
                                           \o <<"\n\nNotes: ">> \o nts),
                      requested |-> TRUE]
            ELSE IF Unwrap(last_hash) # positions_hash
                THEN [last |-> Some(positions_hash),
                      ret |-> IF positions = <<>>
                              THEN RetSome(<<"No active positions - ">> \o nts,
                                           <<"User: ">> \o Endpoint
                                           \o <<"\n\nNo active positions currently",
                                                "\n\nNotes: ">> \o nts)
                              ELSE RetSome(nts \o <<" - ">> \o PositionTitle(positions[1]),
                                           <<"User position changes:\n\n">>
                                           \o PositionDetails(positions)
                                           \o <<"\n\nNotes: ">> \o nts),
                      requested |-> TRUE]
            ELSE [last |-> last_hash, ret |-> RetNone, requested |-> TRUE]

\* check running both sub-checks in every cycle and returning the first
\* Change.
HlCheckBothEveryCycle(spot_on, contract_on, last_id, last_hash, nts, spot_fetch, pos_fetch) ==
    LET a == CheckSpotTrades(spot_on, last_id, nts, spot_fetch)
        b == CheckContractPositions(contract_on, last_hash, nts, pos_fetch)
    IN IF a.ret.kind = "Err"
          THEN [last_id |-> a.last, last_hash |-> last_hash, ret |-> a.ret,
                spot_requested |-> a.requested, pos_requested |-> FALSE]
       ELSE [last_id |-> a.last, last_hash |-> b.last,
             ret |-> IF a.ret.kind = "Some" THEN a.ret ELSE b.ret,
             spot_requested |-> a.requested, pos_requested |-> b.requested]

\* check running the position sub-check after a trade sub-check that
\* failed, and returning the failure.
HlCheckGoesOnAfterErr(spot_on, contract_on, last_id, last_hash, nts, spot_fetch, pos_fetch) ==
    LET a == CheckSpotTrades(spot_on, last_id, nts, spot_fetch)
        b == CheckContractPositions(contract_on, last_hash, nts, pos_fetch)
    IN IF a.ret.kind = "Some"
          THEN [last_id |-> a.last, last_hash |-> last_hash, ret |-> a.ret,
                spot_requested |-> a.requested, pos_requested |-> FALSE]
       ELSE [last_id |-> a.last, last_hash |-> b.last,
             ret |-> IF a.ret.kind = "Err" THEN a.ret ELSE b.ret,
             spot_requested |-> a.requested, pos_requested |-> b.requested]

\* <HyperliquidMonitor as Monitor>::check: check_spot_trades, and
\* check_contract_positions only when the former returned Ok(None).
HlCheck(spot_on, contract_on, last_id, last_hash, nts, spot_fetch, pos_fetch) ==
    LET a == CheckSpotTrades(spot_on, last_id, nts, spot_fetch)
    IN IF a.ret.kind # "None"
          THEN [last_id |-> a.last, last_hash |-> last_hash, ret |-> a.ret,
                spot_requested |-> a.requested, pos_requested |-> FALSE]
       ELSE LET b == CheckContractPositions(contract_on, last_hash, nts, pos_fetch)
            IN [last_id |-> a.last, last_hash |-> b.last, ret |-> b.ret,
                spot_requested |-> a.requested, pos_requested |-> b.requested]

(***************************************************************************)
(* One monitor and its check() cycles                                      *)
(***************************************************************************)

Kinds == {"Static", "Api", "Hyperliquid"}

\* The stored baseline fields of the monitor.
Stored == [content |-> last_content, value |-> last_value,
           trade_id |-> last_spot_trade_id, positions_hash |-> last_positions_hash]

MonitorInit ==
    /\ kind \in Kinds
    /\ \E cfg_notes \in NotesUniverse : notes = NewWithNotes(Endpoint, cfg_notes)
    /\ monitor_spot \in (IF kind = "Hyperliquid" THEN BOOLEAN ELSE {FALSE})
    /\ monitor_contract \in (IF kind = "Hyperliquid" THEN BOOLEAN ELSE {FALSE})
    /\ selector_valid \in (IF kind = "Api" THEN BOOLEAN ELSE {TRUE})
    /\ last_content = None
    /\ last_value = None
    /\ last_spot_trade_id = None
    /\ last_positions_hash = None
    /\ fetched = NotRequested
    /\ ret = NoRet
    /\ had_ok = FALSE
    /\ prev_last = Stored
    /\ prev_matched = FALSE
    /\ masked = "no"

MonitorIdle ==
    /\ kind = "Static"
    /\ notes = Endpoint
    /\ monitor_spot = FALSE
    /\ monitor_contract = FALSE
    /\ selector_valid = TRUE
    /\ last_content = None
    /\ last_value = None
    /\ last_spot_trade_id = None
    /\ last_positions_hash = None
    /\ fetched = NotRequested
    /\ ret = NoRet
    /\ had_ok = FALSE
    /\ prev_last = Stored
    /\ prev_matched = FALSE
    /\ masked = "no"

\* The check() that was given `fetch` evaluated the selector and it matched.
Extracted(sel_ok, fetch) == fetch.out = "ok" /\ sel_ok /\ fetch.results # <<>>

\* One call of StaticMonitor::check.
StaticMonitorCheck ==
    /\ kind = "Static"
    /\ \E fetch \in StaticFetches :
        LET r == StaticCheck(last_content, notes, fetch)
        IN /\ last_content' = r.last
           /\ ret' = r.ret
           /\ fetched' = fetch
           /\ had_ok' = (had_ok \/ r.ret.kind # "Err")
    /\ prev_last' = Stored
    /\ UNCHANGED <<kind, notes, monitor_spot, monitor_contract, selector_valid, prev_matched,
                   masked, last_value, last_spot_trade_id, last_positions_hash,
                   nvars, hvars, svars, lvars>>

\* One call of ApiMonitor::check.
ApiMonitorCheck ==
    /\ kind = "Api"
    /\ \E fetch \in ApiFetches :
        LET r == ApiCheck(last_value, notes, selector_valid, fetch)
        IN /\ last_value' = r.last
           /\ ret' = r.ret
           /\ fetched' = fetch
           /\ had_ok' = (had_ok \/ r.ret.kind # "Err")
    /\ prev_last' = Stored
    /\ prev_matched' = (prev_matched \/ Extracted(selector_valid, fetched))
    /\ UNCHANGED <<kind, notes, monitor_spot, monitor_contract, selector_valid, masked,
                   last_content, last_spot_trade_id, last_positions_hash,
                   nvars, hvars, svars, lvars>>

\* One call of HyperliquidMonitor::check.  fetched keeps the answer of each
\* request the call made.
HyperliquidMonitorCheck ==
    /\ kind = "Hyperliquid"
    /\ \E spot_fetch \in SpotFetches, pos_fetch \in PositionFetches :
        LET r == HlCheck(monitor_spot, monitor_contract, last_spot_trade_id,
                         last_positions_hash, notes, spot_fetch, pos_fetch)
        IN /\ last_spot_trade_id' = r.last_id
           /\ last_positions_hash' = r.last_hash
           /\ ret' = r.ret
           /\ fetched' = [out |-> "hyperliquid",
                          spot |-> IF r.spot_requested THEN spot_fetch ELSE NotRequested,
                          pos |-> IF r.pos_requested THEN pos_fetch ELSE NotRequested]
           /\ had_ok' = (had_ok \/ r.ret.kind # "Err")
           /\ masked' = IF r.pos_requested
                            THEN IF masked # "pending" THEN "no"
                                 ELSE IF pos_fetch.out = "ok" THEN "looked" ELSE "pending"
                         ELSE IF monitor_contract /\ r.ret.kind = "Some" THEN "pending"
                         ELSE IF masked = "pending" THEN "pending" ELSE "no"
    /\ prev_last' = Stored
    /\ UNCHANGED <<kind, notes, monitor_spot, monitor_contract, selector_valid, prev_matched,
                   last_content, last_value, nvars, hvars, svars, lvars>>

MonitorNext == StaticMonitorCheck \/ ApiMonitorCheck \/ HyperliquidMonitorCheck

(***************************************************************************)
(* calculate_positions_hash on a list and on reorderings of it             *)
(***************************************************************************)

\* The position lists a later fetch may return.
OtherPositionFeeds == {<<>>, <<PosBtcLong>>, <<PosBtcLongNear>>, <<PosBtcLongMore>>,
                       <<PosBtcLongDearer>>, <<PosBtcShort>>, <<PosEthLong, PosBtcLongMore>>,
                       <<PosBtcShort, PosEthLong>>}

HashInit ==
    /\ hash_in \in SeqsUpTo(PositionUniverse, MaxPositions)
    /\ hash_perm = hash_in
    /\ hash_other = <<>>
    /\ hash_out = None

HashIdle ==
    /\ hash_in = <<>>
    /\ hash_perm = <<>>
    /\ hash_other = <<>>
    /\ hash_out = None

\* The feed returns the same positions with two neighbours exchanged.
Reorder ==
    /\ \E i \in 1..(Len(hash_perm) - 1) :
        hash_perm' = [hash_perm EXCEPT ![i] = hash_perm[i + 1], ![i + 1] = hash_perm[i]]
    /\ hash_out' = None
    /\ UNCHANGED <<hash_in, hash_other, nvars, mvars, svars, lvars>>

\* A later fetch returns another position list.
Refetch ==
    /\ \E l \in OtherPositionFeeds : hash_other' = l
    /\ hash_out' = None
    /\ UNCHANGED <<hash_in, hash_perm, nvars, mvars, svars, lvars>>

\* calculate_positions_hash is applied to both lists.
HashBoth ==
    /\ hash_out = None
    /\ hash_out' = Some(<<CalculatePositionsHash(hash_in), CalculatePositionsHash(hash_perm),
                          CalculatePositionsHash(hash_other)>>)
    /\ UNCHANGED <<hash_in, hash_perm, hash_other, nvars, mvars, svars, lvars>>

HashNext == Reorder \/ Refetch \/ HashBoth

(***************************************************************************)
(* MonitorApp: the task list and its operations                            *)
(***************************************************************************)

\* The task_type strings of the tasks of the model, both among those the
\* task form writes: one start_task knows, and "Static Web", the default of
\* TaskConfig, which it does not.
TaskTypeUniverse == {"Hyperliquid", "Static Web"}

\* The arms of the match in start_task that build a monitor.
KnownTaskTypes == {"Static", "Api", "Hyperliquid"}

\* TaskStatus
TaskStatuses == {"Idle", "Running", "Error"}

\* A TaskConfig.  uid is not a field of the source: it tells the tasks of
\* the list apart, and is kept by update_task.
TaskConfig(uid, task_type) == [uid |-> uid, task_type |-> task_type]

\* The identities of the tasks of a task list.
Uids(ts) == {ts[k].uid : k \in 1..Len(ts)}

\* An identity no task of the list has: the least one.
FreshUid(ts) ==
    CHOOSE u \in 1..(Len(ts) + 1) : u \notin Uids(ts) /\ \A v \in 1..(u - 1) : v \in Uids(ts)

\* The task indices the operations are called with: all those in range and
\* some out of range.
TaskIndices == 0..MaxTasks

\* Vec::remove(index), index counted from 0 and in range.
RemoveAt(v, index) == SubSeq(v, 1, index) \o SubSeq(v, index + 2, Len(v))

\* The state of the app the operations work on.
App == [tasks |-> tasks, task_statuses |-> task_statuses, task_handles |-> task_handles,
        loops |-> loops, logged |-> <<>>, dropped |-> <<>>, panicked |-> panicked]

\* Indexing a Vec out of its bounds.
Panic(app) == [app EXCEPT !.panicked = TRUE]

\* add_log
AddLog(app, message) == [app EXCEPT !.logged = Append(@, message)]

\* A poll loop that was aborted.
Aborted == [task_index |-> 0 - 1, uid |-> 0, task_type |-> "", aborted |-> TRUE]

\* JoinHandle::abort on the handle of poll loop l.
Abort(app, l) == [app EXCEPT !.loops[l] = Aborted, !.dropped = Append(@, app.loops[l])]

\* self.runtime.spawn(run_monitor_task(task_index, monitor, ..)): the poll
\* loop, with the index it was given and the task whose config its monitor
\* was built from.
NewLoop(task_index, task_config) ==
    [task_index |-> task_index, uid |-> task_config.uid,
     task_type |-> task_config.task_type, aborted |-> FALSE]

\* start_task with the abort of the loop already bound left out.
StartTaskNoAbort(app, task_index) ==
    IF task_index >= Len(app.tasks) THEN app
    ELSE LET k == task_index + 1
             a == [app EXCEPT !.task_statuses[k] = "Running"]
         IN IF app.tasks[k].task_type \in KnownTaskTypes
               THEN AddLog([a EXCEPT !.loops = Append(@, NewLoop(task_index, app.tasks[k])),
                                     !.task_handles[k] = Some(Len(app.loops) + 1)],
                           "Started task")
            ELSE AddLog(a, "Unknown task type")

\* start_task spawning a poll loop whatever the task type.
StartTaskSpawnsAnyway(app, task_index) ==
    IF task_index >= Len(app.tasks) THEN app
    ELSE LET k == task_index + 1
             a == IF IsSome(app.task_handles[k])
                     THEN [Abort(app, Unwrap(app.task_handles[k])) EXCEPT !.task_handles[k] = None]
                  ELSE app
         IN AddLog([a EXCEPT !.task_statuses[k] = "Running",
                             !.loops = Append(@, NewLoop(task_index, app.tasks[k])),
                             !.task_handles[k] = Some(Len(a.loops) + 1)],
                   "Started task")

\* MonitorApp::start_task.  The second task it spawns, which receives the
\* messages of the poll loop, writes nothing of the app and has no handle
\* kept; it is left out.
StartTask(app, task_index) ==
    IF app.panicked \/ task_index >= Len(app.tasks) THEN app
    ELSE IF task_index >= Len(app.task_handles) THEN Panic(app)
    ELSE LET k == task_index + 1
             a == IF IsSome(app.task_handles[k])
                     THEN [Abort(app, Unwrap(app.task_handles[k])) EXCEPT !.task_handles[k] = None]
                  ELSE app
             task_config == app.tasks[k]
         IN IF task_index >= Len(a.task_statuses) THEN Panic(a)
            ELSE LET r == [a EXCEPT !.task_statuses[k] = "Running"]
                 IN IF task_config.task_type \in KnownTaskTypes
                       THEN AddLog([r EXCEPT !.loops = Append(@, NewLoop(task_index, task_config)),
                                             !.task_handles[k] = Some(Len(r.loops) + 1)],
                                   "Started task")
                    ELSE AddLog(r, "Unknown task type")

\* stop_task setting the status to Idle whether or not a loop is bound.
StopTaskAlwaysIdle(app, task_index) ==
    IF task_index >= Len(app.tasks) THEN app
    ELSE LET k == task_index + 1
         IN IF IsSome(app.task_handles[k])
               THEN AddLog([Abort(app, Unwrap(app.task_handles[k]))
                               EXCEPT !.task_handles[k] = None, !.task_statuses[k] = "Idle"],
                           "Stopped task")
            ELSE [app EXCEPT !.task_statuses[k] = "Idle"]

\* stop_task aborting the loops of all tasks, and unbinding only its own.
RECURSIVE AbortAllFrom(_, _)
AbortAllFrom(app, l) ==
    IF l > Len(app.loops) THEN app
    ELSE AbortAllFrom(IF app.loops[l].aborted THEN app ELSE Abort(app, l), l + 1)

StopTaskAbortsAll(app, task_index) ==
    IF task_index >= Len(app.tasks) THEN app
    ELSE LET k == task_index + 1
         IN IF IsSome(app.task_handles[k])
               THEN AddLog([AbortAllFrom(app, 1)
                               EXCEPT !.task_handles[k] = None, !.task_statuses[k] = "Idle"],
                           "Stopped task")
            ELSE app

\* MonitorApp::stop_task
StopTask(app, task_index) ==
    IF app.panicked \/ task_index >= Len(app.tasks) THEN app
    ELSE IF task_index >= Len(app.task_handles) THEN Panic(app)
    ELSE LET k == task_index + 1
         IN IF IsSome(app.task_handles[k])
               THEN IF task_index >= Len(app.task_statuses) THEN Panic(app)
                    ELSE AddLog([Abort(app, Unwrap(app.task_handles[k]))
                                    EXCEPT !.task_handles[k] = None, !.task_statuses[k] = "Idle"],
                                "Stopped task")
            ELSE app

\* The for loop of stop_all_tasks from index i on.
RECURSIVE StopFrom(_, _)
StopFrom(app, i) ==
    IF i >= Len(app.task_handles) THEN app ELSE StopFrom(StopTask(app, i), i + 1)

\* stop_all_tasks with its for loop starting at index 1.
StopAllTasksButFirst(app) == StopFrom(app, 1)

\* MonitorApp::stop_all_tasks
StopAllTasks(app) == StopFrom(app, 0)

\* MonitorApp::add_task, self.editing_task being task_config
AddTask(app, task_config) ==
    IF app.panicked THEN app
    ELSE AddLog([app EXCEPT !.tasks = Append(@, task_config),
                            !.task_statuses = Append(@, "Idle"),
                            !.task_handles = Append(@, None)],
                "Added new task")

\* update_task writing the new config without stopping the task first.
UpdateTaskNoStop(app, editing_task_index, task_type) ==
    IF ~IsSome(editing_task_index) THEN app
    ELSE LET idx == Unwrap(editing_task_index)
         IN IF idx < Len(app.tasks)
               THEN AddLog([app EXCEPT !.tasks[idx + 1] =
                                           TaskConfig(app.tasks[idx + 1].uid, task_type)],
                           "Updated task")
            ELSE app

\* MonitorApp::update_task, self.editing_task_index being editing_task_index
\* and self.editing_task having the task type task_type
UpdateTask(app, editing_task_index, task_type) ==
    IF app.panicked \/ ~IsSome(editing_task_index) THEN app
    ELSE LET idx == Unwrap(editing_task_index)
         IN IF idx < Len(app.tasks)
               THEN LET a == StopTask(app, idx)
                    IN IF a.panicked THEN a
                       ELSE AddLog([a EXCEPT !.tasks[idx + 1] =
                                                 TaskConfig(app.tasks[idx + 1].uid, task_type)],
                                   "Updated task")
            ELSE app

\* delete_task leaving the handle list as it is.
DeleteTaskKeepsHandle(app, task_index) ==
    IF task_index >= Len(app.tasks) THEN app
    ELSE LET a == AddLog(StopTask(app, task_index), "Deleted task")
         IN [a EXCEPT !.tasks = RemoveAt(@, task_index),
                      !.task_statuses = RemoveAt(@, task_index)]

\* MonitorApp::delete_task
DeleteTask(app, task_index) ==
    IF app.panicked THEN app
    ELSE IF task_index < Len(app.tasks)
        THEN LET a == StopTask(app, task_index)
             IN IF a.panicked THEN a
                ELSE IF task_index >= Len(a.task_statuses) \/ task_index >= Len(a.task_handles)
                    THEN Panic(AddLog(a, "Deleted task"))
                ELSE LET b == AddLog(a, "Deleted task")
                     IN [b EXCEPT !.tasks = RemoveAt(@, task_index),
                                  !.task_statuses = RemoveAt(@, task_index),
                                  !.task_handles = RemoveAt(@, task_index)]
    ELSE app

NoTaskIndex == 0 - 1

\* MonitorApp::new: the task list is the one the configuration file holds,
\* every status is Idle and no handle is bound.
AppInit ==
    /\ \E n \in 0..MaxTasks : \E types \in [1..n -> TaskTypeUniverse] :
        /\ tasks = [k \in 1..n |-> TaskConfig(k, types[k])]
        /\ task_statuses = [k \in 1..n |-> "Idle"]
        /\ task_handles = [k \in 1..n |-> None]
    /\ loops = <<>>
    /\ logged = <<"Hyperliquid Monitoring System Started", "Version: 0.1.0">>
    /\ dropped = <<>>
    /\ sop = [name |-> "new", index |-> NoTaskIndex]
    /\ panicked = FALSE

AppIdle ==
    /\ tasks = <<>>
    /\ task_statuses = <<>>
    /\ task_handles = <<>>
    /\ loops = <<>>
    /\ logged = <<"Hyperliquid Monitoring System Started", "Version: 0.1.0">>
    /\ dropped = <<>>
    /\ sop = [name |-> "new", index |-> NoTaskIndex]
    /\ panicked = FALSE

\* The app goes to the state an operation returned.
Becomes(app) ==
    /\ tasks' = app.tasks
    /\ task_statuses' = app.task_statuses
    /\ task_handles' = app.task_handles
    /\ loops' = app.loops
    /\ logged' = app.logged
    /\ dropped' = app.dropped
    /\ panicked' = app.panicked

Start ==
    /\ ~panicked
    /\ \E task_index \in TaskIndices :
        /\ Len(StartTask(App, task_index).loops) <= MaxLoops
        /\ Becomes(StartTask(App, task_index))
        /\ sop' = [name |-> "start", index |-> task_index]
    /\ UNCHANGED <<nvars, mvars, hvars, lvars>>

Stop ==
    /\ ~panicked
    /\ \E task_index \in TaskIndices :
        /\ Becomes(StopTask(App, task_index))
        /\ sop' = [name |-> "stop", index |-> task_index]
    /\ UNCHANGED <<nvars, mvars, hvars, lvars>>

StopAll ==
    /\ ~panicked
    /\ Becomes(StopAllTasks(App))
    /\ sop' = [name |-> "stop_all", index |-> NoTaskIndex]
    /\ UNCHANGED <<nvars, mvars, hvars, lvars>>

Add ==
    /\ ~panicked
    /\ Len(tasks) < MaxTasks
    /\ \E task_type \in TaskTypeUniverse :
        Becomes(AddTask(App, TaskConfig(FreshUid(tasks), task_type)))
    /\ sop' = [name |-> "add", index |-> NoTaskIndex]
    /\ UNCHANGED <<nvars, mvars, hvars, lvars>>

Update ==
    /\ ~panicked
    /\ \E editing_task_index \in {None} \cup {Some(i) : i \in TaskIndices},
          task_type \in TaskTypeUniverse :
        /\ Becomes(UpdateTask(App, editing_task_index, task_type))
        /\ sop' = [name |-> "update",
                   index |-> IF IsSome(editing_task_index) THEN Unwrap(editing_task_index)
                             ELSE NoTaskIndex]
    /\ UNCHANGED <<nvars, mvars, hvars, lvars>>

Delete ==
    /\ ~panicked
    /\ \E task_index \in TaskIndices :
        /\ Becomes(DeleteTask(App, task_index))
        /\ sop' = [name |-> "delete", index |-> task_index]
    /\ UNCHANGED <<nvars, mvars, hvars, lvars>>

AppNext == Start \/ Stop \/ StopAll \/ Add \/ Update \/ Delete

(***************************************************************************)
(* The poll loop: run_monitor_task, its channel and its message receiver   *)
(***************************************************************************)

\* enum Message.  The fields a variant does not have are left empty.
TaskStatusChanged(task_index, status) ==
    [type |-> "TaskStatusChanged", task_index |-> task_index, status |-> status,
     change |-> NoRet, text |-> ""]
ChangeDetected(task_index, change) ==
    [type |-> "ChangeDetected", task_index |-> task_index, status |-> "",
     change |-> change, text |-> ""]
Log(text) ==
    [type |-> "Log", task_index |-> NoTaskIndex, status |-> "", change |-> NoRet,
     text |-> text]

\* What run_monitor_task awaits, one after the other.  on_ok and on_err of
\* a notifier.send are the message it sends to its channel when the send
\* returned Ok and when it returned Err, if it sends one.
OpTxSend(msg) ==
    [op |-> "tx_send", msg |-> msg, title |-> <<>>, body |-> <<>>,
     on_ok |-> None, on_err |-> None]
OpNotifierSend(title, body, on_ok, on_err) ==
    [op |-> "notifier_send", msg |-> Log(""), title |-> title, body |-> body,
     on_ok |-> on_ok, on_err |-> on_err]
OpSleep ==
    [op |-> "sleep", msg |-> Log(""), title |-> <<>>, body |-> <<>>,
     on_ok |-> None, on_err |-> None]
OpCheck ==
    [op |-> "check", msg |-> Log(""), title |-> <<>>, body |-> <<>>,
     on_ok |-> None, on_err |-> None]

\* What monitor.check() returns to the poll loop.
CheckResults == {RetErr(<<"timeout">>), RetNone, RetSome(<<"changed">>, <<"old", "new">>)}

\* monitor.get_notes() and monitor.get_name() of the monitor of the loop.
LoopNotes == <<"eth">>
LoopName == <<"Hyperliquid Monitor">>

\* format!("[{}] Started monitoring: {}", monitor.get_notes(), ..)
InitialMessage(nts, what) == <<"[">> \o nts \o <<"] ", "Started monitoring: ">> \o what

\* format!("[{}] {}", monitor.get_notes(), change.message)
NotificationTitle(nts, message) == <<"[">> \o nts \o <<"] ">> \o message

InitialDetails == <<"Initial content captured. Will notify when changes are detected.">>

\* run_monitor_task from the return r of the check made on entry to the
\* main loop.
AfterEntryCheck(task_index, has_notifier, nts, r) ==
    IF r.kind = "Some"
       THEN (IF has_notifier
                THEN <<OpNotifierSend(InitialMessage(nts, r.message), r.details,
                                      Some(Log("Initial notification sent")),
                                      Some(Log("Failed to send initial notification")))>>
             ELSE <<>>)
            \o <<OpTxSend(ChangeDetected(task_index, r))>>
    ELSE IF r.kind = "None"
       THEN (IF has_notifier
                THEN <<OpNotifierSend(InitialMessage(nts, LoopName), InitialDetails,
                                      Some(Log("Initial notification sent")),
                                      Some(Log("Failed to send initial notification")))>>
             ELSE <<>>)
            \o <<OpTxSend(Log("Task initialized with initial content"))>>
    ELSE <<OpTxSend(TaskStatusChanged(task_index, "Error")),
           OpTxSend(Log("Error getting initial content")),
           OpSleep>>

\* The main loop with no sleep after a check that returned Err.
AfterLoopCheckNoBackoff(task_index, has_notifier, nts, r) ==
    IF r.kind = "Some"
       THEN <<OpTxSend(ChangeDetected(task_index, r))>>
            \o (IF has_notifier
                   THEN <<OpNotifierSend(NotificationTitle(nts, r.message), r.details,
                                         None, Some(Log("Failed to send notification")))>>
                ELSE <<>>)
            \o <<OpSleep>>
    ELSE IF r.kind = "None"
       THEN <<OpTxSend(Log("Task detected no changes")), OpSleep>>
    ELSE <<OpTxSend(TaskStatusChanged(task_index, "Error"))>>

\* The main loop calling notifier.send after a check that returned None too.
AfterLoopCheckNotifiesAlways(task_index, has_notifier, nts, r) ==
    IF r.kind = "Some"
       THEN <<OpTxSend(ChangeDetected(task_index, r))>>
            \o (IF has_notifier
                   THEN <<OpNotifierSend(NotificationTitle(nts, r.message), r.details,
                                         None, Some(Log("Failed to send notification")))>>
                ELSE <<>>)
            \o <<OpSleep>>
    ELSE IF r.kind = "None"
       THEN <<OpTxSend(Log("Task detected no changes"))>>
            \o (IF has_notifier
                   THEN <<OpNotifierSend(NotificationTitle(nts, <<"no changes">>), <<>>,
                                         None, Some(Log("Failed to send notification")))>>
                ELSE <<>>)
            \o <<OpSleep>>
    ELSE <<OpTxSend(TaskStatusChanged(task_index, "Error")), OpSleep>>

\* One turn of the main loop of run_monitor_task from the return r of its
\* check to the next check.
AfterLoopCheck(task_index, has_notifier, nts, r) ==
    IF r.kind = "Some"
       THEN <<OpTxSend(ChangeDetected(task_index, r))>>
            \o (IF has_notifier
                   THEN <<OpNotifierSend(NotificationTitle(nts, r.message), r.details,
                                         None, Some(Log("Failed to send notification")))>>
                ELSE <<>>)
            \o <<OpSleep>>
    ELSE IF r.kind = "None"
       THEN <<OpTxSend(Log("Task detected no changes")), OpSleep>>
    ELSE <<OpTxSend(TaskStatusChanged(task_index, "Error")), OpSleep>>

\* A check() that has begun and not returned.
InFlight == [kind |-> "InFlight", message |-> <<>>, details |-> <<>>]

\* runtime.spawn(run_monitor_task(task_index, monitor, notifier, tx)) and
\* runtime.spawn of the message receiver, with the channel between them.
\*   todo   what the loop has still to await up to its next check(), the
\*          first being what it is at
\*   at     "spawned": not polled yet; "ready": being polled by a worker;
\*          "pending": suspended at the first of todo
\*   entry  the check made on entry has not returned
\*   since  what the last check() returned, and what the loop has done since
\*   chan   the messages in the channel, each by its variant
\*   rcv    the Log the receiver is about to send, if it is sending one
NewRun(task_index, ntf) ==
    [task_index |-> task_index, notifier |-> ntf,
     todo |-> <<OpTxSend(TaskStatusChanged(task_index, "Running")), OpCheck>>,
     at |-> "spawned", entry |-> TRUE,
     since |-> [ret |-> NoRet, did |-> <<>>],
     chan |-> <<>>, rcv |-> None]

\* A poll loop that was dropped, with all it held.
Gone ==
    [task_index |-> NoTaskIndex, notifier |-> None, todo |-> <<>>, at |-> "gone",
     entry |-> FALSE, since |-> [ret |-> NoRet, did |-> <<>>], chan |-> <<>>,
     rcv |-> None]

\* The poll loops whose steps are followed.
Polls == 1..MaxPolls

\* Poll loop l is there and at the operation op.
AtOp(l, op) == l <= Len(runs) /\ runs[l].at # "gone" /\ Head(runs[l].todo).op = op

\* JoinHandle::abort was called on the handle of poll loop l.
Cancelled(l) == loops[l].aborted

\* A worker is polling a loop whose handle was aborted.  One such poll is
\* followed at a time, to its end: until it is over no request is answered,
\* no interval ends and the app is not operated again.
SomeLingering == \E l \in 1..Len(runs) : Cancelled(l) /\ runs[l].at # "gone"

\* The loop did o; late: after its handle was aborted.
Done(o, late) == [what |-> o, late |-> late]

\* Poll loop l suspends as r: a loop whose handle was aborted is dropped
\* the next time it suspends.
Yields(l, r) == IF Cancelled(l) THEN Gone ELSE [r EXCEPT !.at = "pending"]

\* A step that writes Error into the status list of the app for a loop
\* whose check() returned Err.
StepWritesStatus(l, r) ==
    /\ runs' = [runs EXCEPT ![l] = r]
    /\ task_statuses' =
           [k \in 1..Len(task_statuses) |->
               IF r.since.ret.kind = "Err" /\ k = r.task_index + 1 THEN "Error"
               ELSE task_statuses[k]]
    /\ UNCHANGED <<nvars, mvars, hvars, tasks, task_handles, loops, logged,
                   dropped, sop, panicked, notifier>>

\* Poll loop l, or its receiver, becomes r.
Step(l, r) ==
    /\ runs' = [runs EXCEPT ![l] = r]
    /\ UNCHANGED <<nvars, mvars, hvars, svars, notifier>>

\* A worker polls the loop for the first time.
FirstPoll(l) ==
    /\ l <= Len(runs) /\ runs[l].at = "spawned"
    /\ Step(l, [runs[l] EXCEPT !.at = "ready"])

\* The message of the first of todo goes into the channel.
Sent(l, late) ==
    [runs[l] EXCEPT !.chan = Append(@, Head(runs[l].todo).msg.type),
                    !.todo = Tail(@),
                    !.at = "ready",
                    !.since.did = Append(@, Done(Head(runs[l].todo), late))]

\* tx.send(..).await with room in the channel
TxSend(l) ==
    /\ AtOp(l, "tx_send") /\ runs[l].at = "ready"
    /\ Len(runs[l].chan) < ChannelCapacity
    /\ Step(l, Sent(l, Cancelled(l)))

\* tx.send(..).await with the channel full: the loop suspends
TxSendWaits(l) ==
    /\ AtOp(l, "tx_send") /\ runs[l].at = "ready"
    /\ Len(runs[l].chan) >= ChannelCapacity
    /\ Step(l, Yields(l, runs[l]))

\* the channel has room again for the loop suspended in tx.send(..).await
TxSendResumes(l) ==
    /\ AtOp(l, "tx_send") /\ runs[l].at = "pending"
    /\ Len(runs[l].chan) < ChannelCapacity
    /\ Step(l, Sent(l, FALSE))

\* monitor.check().await begins: the request goes out and the loop suspends
CheckBegins(l) ==
    /\ AtOp(l, "check") /\ runs[l].at = "ready"
    /\ runs[l].since.ret.kind # "InFlight"
    /\ Step(l, Yields(l, [runs[l] EXCEPT !.since = [ret |-> InFlight, did |-> <<>>]]))

\* the answer to the request of check() arrives: a worker polls the loop
FetchArrives(l) ==
    /\ AtOp(l, "check") /\ runs[l].at = "pending"
    /\ ~SomeLingering
    /\ Step(l, [runs[l] EXCEPT !.at = "ready"])

\* A poll loop reading the notifier of the app each time it has a change
\* to report.
LoopNotifierOfApp(l) == notifier

\* The notifier of poll loop l: the argument run_monitor_task was spawned
\* with (if let Some(notifier) = &notifier).
LoopNotifier(l) == runs[l].notifier

\* monitor.check().await returns r
CheckReturns(l) ==
    /\ AtOp(l, "check") /\ runs[l].at = "ready"
    /\ runs[l].since.ret.kind = "InFlight"
    /\ \E r \in CheckResults :
           Step(l, [runs[l] EXCEPT
                       !.todo = (IF runs[l].entry
                                    THEN AfterEntryCheck(runs[l].task_index,
                                                         IsSome(LoopNotifier(l)), LoopNotes, r)
                                 ELSE AfterLoopCheck(runs[l].task_index,
                                                     IsSome(LoopNotifier(l)), LoopNotes, r))
                                \o <<OpCheck>>,
                       !.entry = FALSE,
                       !.since = [ret |-> r, did |-> <<>>]])

\* The loop after its notifier.send returned: it goes on with the message
\* it sends about it, if any.
Notified(l, late, follow) ==
    [runs[l] EXCEPT !.todo = (IF IsSome(follow) THEN <<OpTxSend(Unwrap(follow))>> ELSE <<>>)
                             \o Tail(@),
                    !.at = "ready",
                    !.since.did = Append(@, Done(Head(runs[l].todo), late))]

\* notifier.send(..).await returning Err with no request made (sc_send has
\* no URL for the key)
NotifierSendFailsAtOnce(l) ==
    /\ AtOp(l, "notifier_send") /\ runs[l].at = "ready"
    /\ Step(l, Notified(l, Cancelled(l), Head(runs[l].todo).on_err))

\* notifier.send(..).await making its request: the loop suspends
NotifierSendAwaits(l) ==
    /\ AtOp(l, "notifier_send") /\ runs[l].at = "ready"
    /\ Step(l, Yields(l, runs[l]))

\* notifier.send(..).await returns after its requests
NotifierSendReturns(l) ==
    /\ AtOp(l, "notifier_send") /\ runs[l].at = "pending"
    /\ ~SomeLingering
    /\ \E ok \in BOOLEAN :
           Step(l, Notified(l, FALSE, IF ok THEN Head(runs[l].todo).on_ok
                                      ELSE Head(runs[l].todo).on_err))

\* tokio::time::sleep(Duration::from_secs(interval_secs)).await begins
SleepBegins(l) ==
    /\ AtOp(l, "sleep") /\ runs[l].at = "ready"
    /\ Step(l, Yields(l, runs[l]))

\* the interval is over
SleepElapses(l) ==
    /\ AtOp(l, "sleep") /\ runs[l].at = "pending"
    /\ ~SomeLingering
    /\ Step(l, [runs[l] EXCEPT !.todo = Tail(@), !.at = "ready",
                               !.since.did = Append(@, Done(OpSleep, FALSE))])

\* The message receiver: rx.recv().await gives a message.  A Log is
\* written with debug!; for a TaskStatusChanged or a ChangeDetected the
\* receiver sends a Log to the channel it reads.
Recv(l) ==
    /\ l <= Len(runs) /\ runs[l].at # "gone" /\ ~Cancelled(l)
    /\ ~IsSome(runs[l].rcv) /\ runs[l].chan # <<>>
    /\ LET msg == Head(runs[l].chan)
       IN Step(l, [runs[l] EXCEPT
                      !.chan = Tail(@),
                      !.rcv = IF msg = "TaskStatusChanged"
                                 THEN Some(Log("Task status changed"))
                              ELSE IF msg = "ChangeDetected"
                                 THEN Some(Log("Task detected change"))
                              ELSE None])

\* The message receiver: tx_clone.send(Message::Log(..)).await, which
\* waits for room in the channel
Resend(l) ==
    /\ l <= Len(runs) /\ runs[l].at # "gone" /\ ~Cancelled(l)
    /\ IsSome(runs[l].rcv) /\ Len(runs[l].chan) < ChannelCapacity
    /\ Step(l, [runs[l] EXCEPT !.chan = Append(@, Unwrap(runs[l].rcv).type), !.rcv = None])

\* JoinHandle::abort on the handle of a poll loop as r: the loop is dropped
\* at once unless a worker is polling it; if one is, the loop goes on to
\* where it suspends next.  What it did before, and what its receiver does
\* from now on, is followed no further.
Lingering(r) ==
    IF r.at = "ready"
       THEN [r EXCEPT !.since = [ret |-> IF r.since.ret.kind = "InFlight" THEN InFlight
                                         ELSE NoRet,
                                 did |-> <<>>],
                      !.chan = [n \in 1..Len(r.chan) |-> "Log"],
                      !.rcv = None]
    ELSE Gone

\* The poll loops after an operation of the app: those whose handle the
\* operation aborted, and the one it spawned.
Spawned(app) ==
    [l \in 1..Len(app.loops) |->
        IF l > Len(runs) THEN NewRun(app.loops[l].task_index, notifier)
        ELSE IF app.loops[l].aborted /\ ~loops[l].aborted THEN Lingering(runs[l])
        ELSE runs[l]]

\* start_task from the task list
PollStart ==
    /\ ~panicked
    /\ ~SomeLingering
    /\ \E task_index \in 0..(Len(tasks) - 1) :
        /\ Len(StartTask(App, task_index).loops) <= MaxPolls
        /\ Becomes(StartTask(App, task_index))
        /\ sop' = [name |-> "start", index |-> task_index]
        /\ runs' = Spawned(StartTask(App, task_index))
    /\ UNCHANGED <<nvars, mvars, hvars, notifier>>

\* stop_task from the task list
PollStop ==
    /\ ~panicked
    /\ ~SomeLingering
    /\ \E task_index \in 0..(Len(tasks) - 1) :
        /\ Becomes(StopTask(App, task_index))
        /\ sop' = [name |-> "stop", index |-> task_index]
        /\ runs' = Spawned(StopTask(App, task_index))
    /\ UNCHANGED <<nvars, mvars, hvars, notifier>>

\* The notification settings of the settings dialog: configs.notification.
NotificationConfigs == [enabled : BOOLEAN, server_chan_key : {"", "SCT2"}]

\* update_notification_config: the notifier of the app and the line logged.
UpdateNotificationConfig(cfg) ==
    IF cfg.enabled /\ cfg.server_chan_key # ""
       THEN [notifier |-> Some(cfg.server_chan_key),
             logged |-> <<"Updated ServerChan notification configuration">>]
    ELSE [notifier |-> None, logged |-> <<"Disabled ServerChan notifications">>]

\* update_notification_config from the settings dialog
PollUpdateNotification ==
    /\ ~panicked
    /\ ~SomeLingering
    /\ \E cfg \in NotificationConfigs :
        /\ notifier' = UpdateNotificationConfig(cfg).notifier
        /\ logged' = UpdateNotificationConfig(cfg).logged
    /\ sop' = [name |-> "update_notification_config", index |-> NoTaskIndex]
    /\ UNCHANGED <<nvars, mvars, hvars, tasks, task_statuses, task_handles, loops,
                   dropped, panicked, runs>>

\* The app with one task of a type start_task knows, and with or without
\* a notifier.
LoopInit ==
    /\ tasks = <<TaskConfig(1, "Hyperliquid")>>
    /\ task_statuses = <<"Idle">>
    /\ task_handles = <<None>>
    /\ loops = <<>>
    /\ logged = <<"Hyperliquid Monitoring System Started", "Version: 0.1.0">>
    /\ dropped = <<>>
    /\ sop = [name |-> "new", index |-> NoTaskIndex]
    /\ panicked = FALSE
    /\ notifier \in {None, Some("SCT1")}
    /\ runs = <<>>

LoopIdle ==
    /\ notifier = None
    /\ runs = <<>>

\* What the workers of the runtime do with poll loop l.
LoopStep(l) ==
    \/ FirstPoll(l)
    \/ TxSend(l) \/ TxSendWaits(l) \/ TxSendResumes(l)
    \/ CheckBegins(l) \/ CheckReturns(l)
    \/ NotifierSendFailsAtOnce(l) \/ NotifierSendAwaits(l)
    \/ SleepBegins(l)

\* What the network and the timer do for poll loop l.
WorldStep(l) == FetchArrives(l) \/ NotifierSendReturns(l) \/ SleepElapses(l)

\* What the workers do with the message receiver of poll loop l.
ReceiverStep(l) == Recv(l) \/ Resend(l)

LoopNext ==
    \/ PollStart
    \/ PollStop
    \/ PollUpdateNotification
    \/ \E l \in Polls : LoopStep(l)
    \/ \E l \in Polls : WorldStep(l)
    \/ \E l \in Polls : ReceiverStep(l)

(***************************************************************************)
(* Specifications                                                          *)
(***************************************************************************)

\* The notifier alone.
InitNotifier == NotifierInit /\ MonitorIdle /\ HashIdle /\ AppIdle /\ LoopIdle
SpecNotifier == InitNotifier /\ [][NotifierNext]_vars

\* One monitor of any kind.
InitMonitor == NotifierIdle /\ MonitorInit /\ HashIdle /\ AppIdle /\ LoopIdle
SpecMonitor == InitMonitor /\ [][MonitorNext]_vars

\* The position fingerprint as a function.
InitHash == NotifierIdle /\ MonitorIdle /\ HashInit /\ AppIdle /\ LoopIdle
SpecHash == InitHash /\ [][HashNext]_vars

\* The application and its task list.
InitApp == NotifierIdle /\ MonitorIdle /\ HashIdle /\ AppInit /\ LoopIdle
SpecApp == InitApp /\ [][AppNext]_vars

\* One task, its poll loops and their message receivers.
InitLoop == NotifierIdle /\ MonitorIdle /\ HashIdle /\ LoopInit
SpecLoop == InitLoop /\ [][LoopNext]_vars

\* The same, with the workers of the runtime polling every task that can go
\* on, the network answering every request and every interval ending.  The
\* operations of the app are the user's: nothing says they are made.
SpecLoopFair ==
    /\ InitLoop
    /\ [][LoopNext]_vars
    /\ \A l \in Polls : WF_vars(LoopStep(l))
    /\ \A l \in Polls : WF_vars(WorldStep(l))
    /\ \A l \in Polls : WF_vars(ReceiverStep(l))

Init == NotifierInit /\ MonitorInit /\ HashInit /\ AppInit /\ LoopIdle
Next == NotifierNext \/ MonitorNext \/ HashNext \/ AppNext \/ LoopNext
Spec == Init /\ [][Next]_vars

(***************************************************************************)
(* Properties                                                              *)
(***************************************************************************)

SentToKeys == last_op.name = "send" /\ keys # {}

\* The delivery to key k by the last send succeeded.
Delivered(k) == k \in DOMAIN send_net /\ send_net[k] = "ok"

\* The text names key k.
Mentions(message, k) == \E i \in 1..Len(message) : message[i] = k

\* C1: a send with a non-empty key set hands every key of the set to
\* sc_send before it returns, however the delivery to an earlier key failed.
C1_EveryKeyAttempted == SentToKeys => SeqToSet(attempted) = keys

\* C2: a send returns Ok exactly when the delivery to every key succeeded,
\* and the error it returns otherwise names every key whose delivery failed.
C2_OkIffAllDeliveredElseAllNamed ==
    SentToKeys =>
        /\ send_ret.ok <=> (\A k \in keys : Delivered(k))
        /\ ~send_ret.ok =>
               \A k \in SeqToSet(attempted) : ~Delivered(k) => Mentions(send_ret.message, k)

\* C3: a send on an empty key set returns an error and hands no key to
\* sc_send.
C3_EmptyKeySetIsError ==
    (last_op.name = "send" /\ keys = {}) => (~send_ret.ok /\ attempted = <<>>)

C3_Witness == last_op.name = "send" /\ keys = {} /\ ~send_ret.ok

\* C4: the keys are a set: add_key(k) applied again changes nothing more,
\* remove_key(k) applied again changes nothing more and removing an absent
\* key changes nothing, the empty key is never stored, and a send hands every
\* key of the set to sc_send exactly once.
C4_KeysAreASet ==
    [][/\ "" \notin keys'
       /\ last_op'.name = "add_key" =>
              /\ keys' = AddKeyTo(keys, last_op'.key)
              /\ AddKeyTo(keys', last_op'.key) = keys'
       /\ last_op'.name = "remove_key" =>
              /\ keys' = RemoveKeyFrom(keys, last_op'.key)
              /\ RemoveKeyFrom(keys', last_op'.key) = keys'
              /\ last_op'.key \notin keys => keys' = keys
       /\ last_op'.name = "send" => \A k \in keys' : Count(attempted', k) = 1]_vars

Called == ret.kind # "NotCalled"

\* A request of the last check() failed in transit, by its status, or by a
\* payload that could not be parsed.
FetchFailed ==
    IF kind = "Hyperliquid"
        THEN Called /\ (fetched.spot.out \in {"transport", "status", "bad_json", "not_array"}
                        \/ fetched.pos.out \in {"transport", "status", "bad_json"})
    ELSE fetched.out \in {"transport", "status", "read", "bad_json"}

\* C5: a check() one of whose requests failed that way returns Err, never
\* a Change, whatever the kind of the monitor.
C5_FetchFailureIsErr == (Called /\ FetchFailed) => ret.kind = "Err"

\* The monitor holds a baseline.
BaselinePresent ==
    CASE kind = "Static" -> IsSome(last_content)
      [] kind = "Api" -> IsSome(last_value)
      [] kind = "Hyperliquid" ->
            (monitor_spot \/ monitor_contract)
                => (IsSome(last_spot_trade_id) \/ IsSome(last_positions_hash))

\* C6: once a check() has returned Ok the monitor holds a baseline, and
\* holds one from then on.
C6_BaselineAfterFirstOk == had_ok => BaselinePresent

\* The last check() was the first of a StaticMonitor to get the page.
FirstStaticSuccess ==
    kind = "Static" /\ Called /\ fetched.out = "ok" /\ ~IsSome(prev_last.content)

\* C7, as claimed: the first successful check() of a StaticMonitor stores
\* the content and returns a Change whose message begins with the notes.
C7_FirstMessageBeginsWithNotes ==
    FirstStaticSuccess =>
        /\ last_content = Some(fetched.content)
        /\ ret.kind = "Some"
        /\ StartsWith(ret.message, notes)

\* C7, amended: the first successful check() of a StaticMonitor stores the
\* content and returns a Change whose message is "start: " followed by the
\* notes.
C7_FirstMessageIsStartThenNotes ==
    FirstStaticSuccess =>
        /\ last_content = Some(fetched.content)
        /\ ret.kind = "Some"
        /\ ret.message = StartPrefix \o notes

C7_Witness == FirstStaticSuccess /\ ret.kind = "Some" /\ ~StartsWith(ret.message, notes)

\* C8: a StaticMonitor holding a baseline returns None from a successful
\* check() exactly when the content fetched equals the stored one; after a
\* successful check() the stored content is the one fetched, and a failed
\* check() leaves the stored content as it was.
C8_NoneIffSameContent ==
    (kind = "Static" /\ Called) =>
        /\ (fetched.out = "ok" /\ IsSome(prev_last.content)) =>
               (ret.kind = "None" <=> fetched.content = Unwrap(prev_last.content))
        /\ (fetched.out = "ok" /\ IsSome(prev_last.content)) => ret.kind # "Err"
        /\ fetched.out = "ok" => last_content = Some(fetched.content)
        /\ fetched.out # "ok" => last_content = prev_last.content

C8_Witness ==
    /\ kind = "Static" /\ fetched.out = "ok" /\ IsSome(prev_last.content)
    /\ fetched.content # Unwrap(prev_last.content)
    /\ ret.kind = "Some" /\ last_content = Some(fetched.content)

\* C9: when the selector of an ApiMonitor matched in an earlier check() and
\* matches nothing in this one, check() returns the Change that reports
\* the failed extraction, not Err.
C9_LostMatchIsChange ==
    (kind = "Api" /\ prev_matched /\ fetched.out = "ok" /\ fetched.results = <<>>) =>
        /\ ret.kind = "Some"
        /\ ret.message = notes \o <<" - Data extraction failed">>

C9_Witness ==
    kind = "Api" /\ prev_matched /\ fetched.out = "ok" /\ fetched.results = <<>>
    /\ ret.kind = "Some"

\* C10: calculate_positions_hash gives a position list and every
\* reordering of it the same fingerprint.
C10_HashIgnoresOrder == IsSome(hash_out) => Unwrap(hash_out)[1] = Unwrap(hash_out)[2]

\* The size and the entry price as printed with two decimals, and the
\* direction, of the positions a list holds in one asset.
RECURSIVE RoundedOf(_, _)
RoundedOf(positions, asset) ==
    IF positions = <<>> THEN <<>>
    ELSE LET pos == Head(positions)
         IN (IF pos.asset = asset
                THEN <<[size |-> Fmt2(pos.size), entry_price |-> Fmt2(pos.entry_price),
                        position_type |-> pos.position_type]>>
             ELSE <<>>) \o RoundedOf(Tail(positions), asset)

\* Both lists hold the asset, and not with the same rounded size, rounded
\* entry price and direction.
DiffersIn(l1, l2, asset) ==
    /\ RoundedOf(l1, asset) # <<>>
    /\ RoundedOf(l2, asset) # <<>>
    /\ RoundedOf(l1, asset) # RoundedOf(l2, asset)

AssetsOf(l) == {l[i].asset : i \in 1..Len(l)}

\* C11: the fingerprints of two position lists differ whenever some asset
\* is held in both with a different rounded size, rounded entry price or
\* direction.
C11_HashSeparatesRoundedFields ==
    (IsSome(hash_out) /\ \E a \in AssetsOf(hash_in) : DiffersIn(hash_in, hash_other, a))
        => Unwrap(hash_out)[1] # Unwrap(hash_out)[3]

\* Two lists of one BTC position each that differ in the direction alone.
C11_Witness ==
    /\ IsSome(hash_out)
    /\ hash_in = <<PosBtcLong>> /\ hash_other = <<PosBtcShort>>
    /\ Unwrap(hash_out)[1] # Unwrap(hash_out)[3]

\* The last check() ran the position sub-check and it got a position list.
PositionsObserved == kind = "Hyperliquid" /\ Called /\ fetched.pos.out = "ok"

\* C12: a position sub-check that gets a position list returns, when no
\* fingerprint is stored, a "Started monitoring" Change (telling of no
\* active positions for an empty list, listing the holdings otherwise);
\* when the stored fingerprint is that of the list, None; when it is another
\* and the list is not empty, a Change listing the positions; when it is
\* another and the list is empty, a "No active positions" Change that is
\* not the start Change.  After every Change the stored fingerprint is that
\* of the list.
C12_PositionSubCheck ==
    PositionsObserved =>
        LET positions == fetched.pos.positions
            positions_hash == CalculatePositionsHash(positions)
            before == prev_last.positions_hash
        IN /\ ~IsSome(before) =>
                  /\ ret.kind = "Some"
                  /\ ret.message = <<"Started monitoring: ">> \o notes
                  /\ positions = <<>> => Mentions(ret.details, "\n\nNo active positions currently")
                  /\ positions # <<>> =>
                         StartsWith(ret.details, <<"User's current positions:\n\n">>
                                                 \o PositionDetails(positions))
           /\ before = Some(positions_hash) => ret.kind = "None"
           /\ (IsSome(before) /\ before # Some(positions_hash) /\ positions # <<>>) =>
                  /\ ret.kind = "Some"
                  /\ ret.message = notes \o <<" - ">> \o PositionTitle(positions[1])
                  /\ StartsWith(ret.details, <<"User position changes:\n\n">>
                                             \o PositionDetails(positions))
           /\ (IsSome(before) /\ before # Some(positions_hash) /\ positions = <<>>) =>
                  /\ ret.kind = "Some"
                  /\ ret.message = <<"No active positions - ">> \o notes
                  /\ ret.message # <<"Started monitoring: ">> \o notes
           /\ ret.kind = "Some" => last_positions_hash = Some(positions_hash)
           /\ ret.kind = "None" => last_positions_hash = before
           /\ ret.kind # "Err"

\* The positions held at the last fingerprint are found closed.
C12_Witness ==
    /\ PositionsObserved
    /\ prev_last.positions_hash = Some(CalculatePositionsHash(<<PosBtcLong>>))
    /\ fetched.pos.positions = <<>>
    /\ ret.kind = "Some"
    /\ last_positions_hash = Some(CalculatePositionsHash(<<>>))

\* The trades the last check() got hold a latest trade, with an identifier,
\* that is not the one stored.
TradeSubCheckHasChange ==
    /\ kind = "Hyperliquid" /\ Called /\ fetched.spot.out = "ok"
    /\ fetched.spot.trades # <<>>
    /\ IsSome(fetched.spot.trades[1].tid)
    /\ prev_last.trade_id # fetched.spot.trades[1].tid

\* The trade sub-check of the last check() returned Ok(None).
TradeSubCheckHasNothing ==
    /\ kind = "Hyperliquid" /\ Called
    /\ \/ ~monitor_spot
       \/ /\ fetched.spot.out = "ok"
          /\ \/ fetched.spot.trades = <<>>
             \/ /\ IsSome(fetched.spot.trades[1].tid)
                /\ prev_last.trade_id = fetched.spot.trades[1].tid

\* The Change is one check_spot_trades makes.
IsTradeChange(r) ==
    /\ r.kind = "Some"
    /\ \/ StartsWith(r.details, <<"Initial monitoring data:\n">>)
       \/ StartsWith(r.details, <<"Changed content:\n">>)

\* The Change is one check_contract_positions makes.
IsPositionChange(r) == r.kind = "Some" /\ ~IsTradeChange(r)

\* C13: when the trade sub-check has a Change, check() returns it, makes no
\* request for the positions and leaves the stored fingerprint as it was;
\* and the first later check() whose trade sub-check has nothing and which
\* gets a position list whose fingerprint is not the stored one returns
\* the position Change.
C13_TradeChangeMasksPositions ==
    /\ TradeSubCheckHasChange =>
           /\ IsTradeChange(ret)
           /\ fetched.pos = NotRequested
           /\ last_positions_hash = prev_last.positions_hash
    /\ (masked = "pending" /\ TradeSubCheckHasNothing) =>
           fetched.pos.out \in {"transport", "status", "bad_json"}
    /\ masked = "looked" => (TradeSubCheckHasNothing /\ PositionsObserved)
    /\ (TradeSubCheckHasNothing /\ PositionsObserved
        /\ prev_last.positions_hash # Some(CalculatePositionsHash(fetched.pos.positions))) =>
           /\ IsPositionChange(ret)
           /\ last_positions_hash = Some(CalculatePositionsHash(fetched.pos.positions))

\* A check() that reports a position change which the check() before it
\* left unlooked-at behind a trade Change.
C13_Witness ==
    /\ monitor_spot /\ monitor_contract /\ PositionsObserved
    /\ IsSome(prev_last.positions_hash) /\ IsSome(prev_last.trade_id)
    /\ fetched.spot.out = "ok" /\ fetched.spot.trades # <<>>
    /\ IsPositionChange(ret)
    /\ masked = "looked"

\* The last check() watched the spot trades and got a trade array that is
\* not empty.
TradesObserved ==
    /\ kind = "Hyperliquid" /\ Called /\ monitor_spot
    /\ fetched.spot.out = "ok" /\ fetched.spot.trades # <<>>

\* What the claim C14 says of a trade sub-check whose latest trade is t.
TradeSubCheckAsClaimed(t) ==
    /\ ~IsSome(prev_last.trade_id) =>
           /\ IsTradeChange(ret)
           /\ ret.message = <<"Started monitoring: ">> \o notes
           /\ last_spot_trade_id = t.tid
    /\ (IsSome(prev_last.trade_id) /\ prev_last.trade_id # t.tid) =>
           /\ IsTradeChange(ret)
           /\ StartsWith(ret.message, notes \o <<" - ", "New ", t.asset>>)
           /\ last_spot_trade_id = t.tid
    /\ (IsSome(prev_last.trade_id) /\ prev_last.trade_id = t.tid) =>
           /\ fetched.pos = NotRequested => ret.kind = "None"
           /\ ~IsTradeChange(ret)
           /\ last_spot_trade_id = prev_last.trade_id

\* C14, as claimed: a trade sub-check that gets a trade array that is not
\* empty returns the initial Change and stores the latest identifier when
\* none is stored; returns a Change and stores the latest identifier when
\* another is stored; returns None and keeps the stored identifier when the
\* same is stored.
C14_TradeSubCheck == TradesObserved => TradeSubCheckAsClaimed(fetched.spot.trades[1])

\* C14, amended: the same, for a trade array whose latest entry has a
\* string as its "tid".
C14_TradeSubCheckWithStringTid ==
    (TradesObserved /\ IsSome(fetched.spot.trades[1].tid)) =>
        TradeSubCheckAsClaimed(fetched.spot.trades[1])

\* A later trade sub-check finds a new latest trade and stores its identifier.
C14_Witness ==
    /\ TradesObserved
    /\ prev_last.trade_id = TradeEthBuy.tid
    /\ fetched.spot.trades[1] = TradeBtcSell
    /\ IsTradeChange(ret)
    /\ last_spot_trade_id = TradeBtcSell.tid

\* Poll loop l has not been aborted.
Live(l) == ~loops[l].aborted

\* The three lists have one length, and the handle at an index is that of
\* a loop spawned for the task at that index.
ListsAligned ==
    /\ ~panicked
    /\ Len(task_statuses) = Len(tasks)
    /\ Len(task_handles) = Len(tasks)
    /\ \A k \in 1..Len(tasks) :
           IsSome(task_handles[k]) =>
               /\ Unwrap(task_handles[k]) \in 1..Len(loops)
               /\ loops[Unwrap(task_handles[k])].uid = tasks[k].uid

\* The operation op is aimed at the task at index i (counted from 0).
AimedAt(op, i) ==
    \/ op.name = "stop_all"
    \/ op.name \in {"start", "stop", "update", "delete"} /\ op.index = i

\* A step leaves the app as it is when it is a start, stop or delete with
\* an index out of range; and a task that is in the list before and after
\* the step, and that the step is not aimed at, has the status and the
\* handle after it that it had before, wherever it sits; only the task a
\* delete is aimed at leaves the list.
StepKeepsAlignment ==
    /\ (sop'.name \in {"start", "stop", "delete"} /\ sop'.index >= Len(tasks)) =>
           UNCHANGED <<tasks, task_statuses, task_handles, loops, panicked>>
    /\ \A k \in 1..Len(tasks) : \A k2 \in 1..Len(tasks') :
           (/\ tasks[k].uid = tasks'[k2].uid
            /\ ~AimedAt(sop', k - 1)
            /\ k <= Len(task_statuses) /\ k <= Len(task_handles)) =>
               /\ k2 <= Len(task_statuses') /\ task_statuses'[k2] = task_statuses[k]
               /\ k2 <= Len(task_handles') /\ task_handles'[k2] = task_handles[k]
    /\ \A k \in 1..Len(tasks) :
           ~(sop'.name = "delete" /\ sop'.index = k - 1) => tasks[k].uid \in Uids(tasks')

\* C15: after any sequence of add, update, delete, start, stop and stop_all
\* the config list, the status list and the handle list have one length
\* and are aligned index by index, no operation has indexed out of bounds,
\* and start, stop and delete with an index out of range change nothing.
C15_ListsStayAligned == []ListsAligned /\ [][StepKeepsAlignment]_vars

\* A task with a bound loop sits at index 0 after the task before it was
\* deleted.
C15_Witness ==
    /\ sop.name = "delete" /\ Len(tasks) >= 1
    /\ IsSome(task_handles[1]) /\ task_statuses[1] = "Running"
    /\ loops[Unwrap(task_handles[1])].task_index = 1
    /\ loops[Unwrap(task_handles[1])].uid = tasks[1].uid

\* C16: the status of a task is Running exactly when a poll loop handle is
\* bound to its index.
C16_RunningIffHandleBound ==
    \A k \in 1..Len(tasks) : task_statuses[k] = "Running" <=> IsSome(task_handles[k])

\* C17: a start of a task whose task type start_task does not know spawns
\* no poll loop, logs the unknown type, indexes nothing out of bounds, and
\* leaves the config list and every other task's status, handle and loop as
\* they were.
C17_UnknownTypeStartsNothing ==
    [][(/\ sop'.name = "start" /\ sop'.index < Len(tasks)
        /\ tasks[sop'.index + 1].task_type \notin KnownTaskTypes) =>
           /\ Len(loops') = Len(loops)
           /\ ~IsSome(task_handles'[sop'.index + 1])
           /\ \E n \in 1..Len(logged') : logged'[n] = "Unknown task type"
           /\ ~panicked'
           /\ tasks' = tasks
           /\ \A k \in 1..Len(tasks) :
                  k # sop'.index + 1 =>
                      /\ task_statuses'[k] = task_statuses[k]
                      /\ task_handles'[k] = task_handles[k]
                      /\ IsSome(task_handles[k]) =>
                             loops'[Unwrap(task_handles[k])] = loops[Unwrap(task_handles[k])]
      ]_vars

\* A task of unknown type was started while another task's loop runs.
C17_Witness ==
    /\ sop.name = "start" /\ sop.index < Len(tasks)
    /\ tasks[sop.index + 1].task_type \notin KnownTaskTypes
    /\ logged = <<"Unknown task type">>
    /\ \E k \in 1..Len(tasks) :
           /\ k # sop.index + 1
           /\ IsSome(task_handles[k]) /\ Live(Unwrap(task_handles[k]))
           /\ task_statuses[k] = "Running"

\* C18: after a stop with an index in range no poll loop is bound to the
\* index and the status of the task is Idle.
C18_StoppedIsIdleAndUnbound ==
    (sop.name = "stop" /\ sop.index < Len(tasks)) =>
        /\ ~IsSome(task_handles[sop.index + 1])
        /\ task_statuses[sop.index + 1] = "Idle"

\* C19: a stop of an index to which no poll loop is bound leaves the
\* statuses, the handles, the loops and the config list as they were.
C19_StopWithoutLoopIsNoOp ==
    [][(/\ sop'.name = "stop"
        /\ \/ sop'.index >= Len(tasks)
           \/ ~IsSome(task_handles[sop'.index + 1])) =>
           UNCHANGED <<tasks, task_statuses, task_handles, loops>>
      ]_vars

\* A stop of a task with no loop, while another task's loop runs.
C19_Witness ==
    /\ sop.name = "stop" /\ sop.index < Len(tasks)
    /\ logged = <<>>
    /\ \E k \in 1..Len(tasks) :
           /\ k # sop.index + 1
           /\ IsSome(task_handles[k]) /\ Live(Unwrap(task_handles[k]))

\* C20: no task ever has two poll loops that are not aborted, and a poll
\* loop that is not aborted is the one bound to the index of its task.
C20_OneLiveLoopPerTask ==
    /\ \A l1 \in 1..Len(loops) : \A l2 \in 1..Len(loops) :
           (Live(l1) /\ Live(l2) /\ loops[l1].uid = loops[l2].uid) => l1 = l2
    /\ \A l \in 1..Len(loops) :
           Live(l) => \E k \in 1..Len(task_handles) :
                          /\ task_handles[k] = Some(l)
                          /\ k <= Len(tasks) /\ tasks[k].uid = loops[l].uid

\* A task was started again while its loop ran: the old loop is aborted,
\* the new one is bound.
C20_Witness ==
    /\ sop.name = "start" /\ sop.index < Len(tasks)
    /\ Len(dropped) = 1 /\ dropped[1].uid = tasks[sop.index + 1].uid
    /\ \E l \in 1..Len(loops) :
           /\ Live(l) /\ loops[l].uid = dropped[1].uid
           /\ task_handles[sop.index + 1] = Some(l)

\* Poll loop l runs with a monitor built from the config now stored for the
\* task at index k (counted from 1).
BuiltFromStored(l, k) ==
    /\ loops[l].uid = tasks[k].uid
    /\ loops[l].task_type = tasks[k].task_type

\* C21: a poll loop that is not aborted is bound to a task of the list, and
\* its monitor was built from the config now stored for that task: update
\* and delete abort the loop of their task before they change the list.
C21_LiveLoopHasStoredConfig ==
    \A l \in 1..Len(loops) :
        Live(l) => \E k \in 1..Len(tasks) :
                       /\ k <= Len(task_handles) /\ task_handles[k] = Some(l)
                       /\ BuiltFromStored(l, k)

\* A task whose loop ran was given another config: the loop built from the
\* old one was aborted, and the loop of another task goes on.
C21_Witness ==
    /\ sop.name = "update" /\ sop.index < Len(tasks)
    /\ Len(dropped) = 1
    /\ dropped[1].uid = tasks[sop.index + 1].uid
    /\ dropped[1].task_type # tasks[sop.index + 1].task_type
    /\ \E l \in 1..Len(loops) : Live(l)

\* The step is a start of index i right after a delete of index i.
StartAfterDelete(i) ==
    /\ sop.name = "delete" /\ sop.index = i
    /\ sop'.name = "start" /\ sop'.index = i

\* The step spawned a poll loop for the task at index i (counted from 0) of
\* the list as it was before the step, built from that task's config, and
\* bound it to the index.
StartedLoopFor(i) ==
    /\ tasks' = tasks
    /\ Len(loops') = Len(loops) + 1
    /\ ~loops'[Len(loops')].aborted
    /\ loops'[Len(loops')].task_index = i
    /\ loops'[Len(loops')].uid = tasks[i + 1].uid
    /\ loops'[Len(loops')].task_type = tasks[i + 1].task_type
    /\ task_handles'[i + 1] = Some(Len(loops'))

\* C22: a start of index i right after a delete of index i starts a poll
\* loop for the task that the delete shifted into index i, built from that
\* task's config, or changes nothing when i is now out of range; it indexes
\* nothing out of bounds.
C22_DeleteThenStart ==
    [][\A i \in TaskIndices :
           StartAfterDelete(i) =>
               /\ ~panicked'
               /\ IF i < Len(tasks) THEN StartedLoopFor(i)
                  ELSE UNCHANGED <<tasks, task_statuses, task_handles, loops>>
      ]_vars

\* The same with the task that shifted into index i being of a type
\* start_task knows.
C22_DeleteThenStartKnownType ==
    [][\A i \in TaskIndices :
           StartAfterDelete(i) =>
               /\ ~panicked'
               /\ IF i < Len(tasks)
                     THEN tasks[i + 1].task_type \in KnownTaskTypes => StartedLoopFor(i)
                  ELSE UNCHANGED <<tasks, task_statuses, task_handles, loops>>
      ]_vars

\* C23: after stop_all_tasks, which on_exit runs, no poll loop is bound to
\* any task and every poll loop ever spawned is aborted.
C23_StopAllLeavesNoLoop ==
    sop.name = "stop_all" =>
        /\ \A k \in 1..Len(task_handles) : ~IsSome(task_handles[k])
        /\ \A l \in 1..Len(loops) : ~Live(l)

\* stop_all_tasks aborted the loops of two tasks.
C23_Witness ==
    /\ sop.name = "stop_all"
    /\ Len(dropped) = 2 /\ dropped[1].uid # dropped[2].uid
    /\ \A k \in 1..Len(task_handles) : ~IsSome(task_handles[k])

\* The loops the step aborted are at most the one that was bound to index i
\* (counted from 0), and every other loop is as it was.
CancelsOnlyLoopOf(i) ==
    \A l \in 1..Len(loops) :
        (i < Len(task_handles) /\ task_handles[i + 1] = Some(l)) \/ loops'[l] = loops[l]

\* C24: a stop of index i, and a start of index i with the abort it does,
\* abort no loop but the one bound to index i: the loop of every other task
\* goes on, and the handle and the status of every other task are as they
\* were.
C24_CancelTouchesOneTask ==
    [][\A i \in TaskIndices :
           (sop'.name \in {"stop", "start"} /\ sop'.index = i) =>
               /\ CancelsOnlyLoopOf(i)
               /\ Len(task_handles') = Len(task_handles)
               /\ Len(task_statuses') = Len(task_statuses)
               /\ \A k \in 1..Len(task_handles) :
                      k # i + 1 => /\ task_handles'[k] = task_handles[k]
                                   /\ task_statuses'[k] = task_statuses[k]
      ]_vars

\* A task was started again while its loop and the loop of another task
\* ran: its old loop is aborted, the other task's loop goes on.
C24_Witness ==
    /\ sop.name = "start" /\ sop.index < Len(tasks)
    /\ Len(dropped) = 1 /\ dropped[1].uid = tasks[sop.index + 1].uid
    /\ \E k \in 1..Len(tasks) :
           /\ k # sop.index + 1
           /\ IsSome(task_handles[k]) /\ Live(Unwrap(task_handles[k]))
           /\ task_statuses[k] = "Running"

\* What poll loop l has done since its last check() returned.
Did(l) == runs[l].since.did

\* C25: once the handle of a poll loop was aborted, by stop_task or by the
\* abort start_task makes, the loop sends nothing more to its channel and
\* calls notifier.send no more.
C25_NothingAfterAbort ==
    \A l \in 1..Len(runs) : \A n \in 1..Len(Did(l)) : ~Did(l)[n].late

\* Poll loop l is about to call check() again after a check() that returned.
AboutToCheckAgain(l) ==
    /\ AtOp(l, "check") /\ runs[l].at = "ready" /\ ~Cancelled(l)
    /\ runs[l].since.ret.kind \in {"Some", "None", "Err"}

\* The sleeps of poll loop l since its last check() returned.
SleepsSince(l) == {n \in 1..Len(Did(l)) : Did(l)[n].what.op = "sleep"}

\* C26: between two check() calls of a poll loop that follow each other,
\* the one made on entry being the first, the loop sleeps one interval,
\* once, whatever the earlier check() returned.
C26_OneSleepBetweenChecks ==
    \A l \in 1..Len(runs) : AboutToCheckAgain(l) => Cardinality(SleepsSince(l)) = 1

\* C27: after a check() that returned Err, the one made on entry or a later
\* one, the poll loop sends TaskStatusChanged(Error) to its channel and then
\* sleeps one interval, once, before it calls check() again.
C27_ErrorThenSleep ==
    \A l \in 1..Len(runs) :
        (AboutToCheckAgain(l) /\ runs[l].since.ret.kind = "Err") =>
            /\ Cardinality(SleepsSince(l)) = 1
            /\ \E n \in 1..Len(Did(l)) :
                   /\ Did(l)[n].what.op = "tx_send"
                   /\ Did(l)[n].what.msg = TaskStatusChanged(runs[l].task_index, "Error")
                   /\ \A m \in SleepsSince(l) : n < m

\* A check() of the main loop returned Err, and the loop has sent the
\* status and slept.
C27_Witness ==
    \E l \in 1..Len(runs) :
        /\ AboutToCheckAgain(l) /\ runs[l].since.ret.kind = "Err"
        /\ Len(Did(l)) = 2
        /\ Did(l)[1].what.msg = TaskStatusChanged(0, "Error")
        /\ Did(l)[2].what.op = "sleep"

\* C28: after a check() that returned Some(change), the poll loop sends
\* ChangeDetected with that change to its channel before it calls
\* notifier.send, and it calls notifier.send with a title that begins with
\* the notes of the monitor and with the details of the change as body.
C28_EventBeforeNotification ==
    \A l \in 1..Len(runs) :
        (runs[l].at # "gone" /\ ~Cancelled(l) /\ runs[l].since.ret.kind = "Some") =>
            \A n \in 1..Len(Did(l)) :
                Did(l)[n].what.op = "notifier_send" =>
                    /\ StartsWith(Did(l)[n].what.title, <<"[">> \o LoopNotes \o <<"] ">>)
                    /\ Did(l)[n].what.body = runs[l].since.ret.details
                    /\ \E m \in 1..(n - 1) :
                           /\ Did(l)[m].what.op = "tx_send"
                           /\ Did(l)[m].what.msg =
                                  ChangeDetected(runs[l].task_index, runs[l].since.ret)

\* The same for the checks of the main loop alone.
C28_EventBeforeNotificationInMainLoop ==
    \A l \in 1..Len(runs) :
        (/\ runs[l].at # "gone" /\ ~Cancelled(l) /\ runs[l].since.ret.kind = "Some"
         /\ \E n \in 1..Len(Did(l)) : Did(l)[n].what.op = "notifier_send"
         /\ ~\E n \in 1..Len(Did(l)) :
                /\ Did(l)[n].what.op = "notifier_send"
                /\ Did(l)[n].what.title = InitialMessage(LoopNotes, runs[l].since.ret.message))
        => Did(l)[1].what.msg = ChangeDetected(runs[l].task_index, runs[l].since.ret)

\* Poll loop l is there, its handle is not aborted, and it is not in a
\* check().
Returned(l) ==
    /\ l <= Len(runs) /\ ~Cancelled(l)
    /\ runs[l].since.ret.kind # "InFlight"

\* Poll loop l is in a check(), or its handle is aborted.
CheckingOrCancelled(l) ==
    /\ l <= Len(runs)
    /\ Cancelled(l) \/ runs[l].since.ret.kind = "InFlight"

\* C29: a poll loop is dropped only after its handle was aborted, whatever
\* check() and notifier.send return and whatever becomes of its messages;
\* and as long as its handle is not aborted it calls check() again and
\* again.
C29_LoopNeverEndsItself ==
    /\ [](\A l \in 1..Len(runs) : runs[l].at = "gone" => Cancelled(l))
    /\ \A l \in Polls : Returned(l) ~> CheckingOrCancelled(l)

\* Poll loop l is in a check() that goes on.
CheckInProgress(l) == runs[l].at # "gone" /\ runs[l].since.ret.kind = "InFlight"

\* C30: no two check() calls for one task are in progress at a time,
\* however start_task and stop_task fall between the steps of the loops.
C30_ChecksNeverOverlap ==
    \A l1 \in 1..Len(runs) : \A l2 \in 1..Len(runs) :
        (l1 # l2 /\ CheckInProgress(l1) /\ CheckInProgress(l2)) =>
            runs[l1].task_index # runs[l2].task_index

\* Poll loop l is suspended in tx.send(..).await: its channel is full.
WaitsForRoom(l) ==
    /\ AtOp(l, "tx_send") /\ runs[l].at = "pending" /\ ~Cancelled(l)
    /\ Len(runs[l].chan) >= ChannelCapacity

\* C31: a poll loop that finds its channel full goes on to its next
\* check(), however slow the receiver of its messages is.
C31_FullChannelDoesNotStopPolling ==
    \A l \in Polls : WaitsForRoom(l) ~> CheckingOrCancelled(l)

\* The receiver of poll loop l is in tx_clone.send(Message::Log(..)).await.
ReceiverSending(l) == l <= Len(runs) /\ ~Cancelled(l) /\ IsSome(runs[l].rcv)

\* The receiver of poll loop l is back at rx.recv().await, or the loop is
\* no longer followed.
ReceiverReceiving(l) == l <= Len(runs) /\ (Cancelled(l) \/ ~IsSome(runs[l].rcv))

\* C33: the send with which the receiver of a poll loop puts a Log for a
\* TaskStatusChanged or a ChangeDetected on the channel it reads always
\* completes, however its steps fall between those of the loop.
C33_ReceiverSendCompletes ==
    \A l \in Polls : ReceiverSending(l) ~> ReceiverReceiving(l)

\* Poll loop l has called notifier.send since its last check() returned.
NotifiedSince(l) == \E n \in 1..Len(Did(l)) : Did(l)[n].what.op = "notifier_send"

\* C32: a poll loop calls notifier.send only after a check() that returned
\* Some(change); after a check() that returned None, the one made on entry
\* too, it sends a Log to its channel and calls notifier.send not at all.
C32_NotificationOnlyOnChange ==
    \A l \in 1..Len(runs) :
        (runs[l].at # "gone" /\ ~Cancelled(l)) =>
            /\ NotifiedSince(l) => runs[l].since.ret.kind = "Some"
            /\ (AboutToCheckAgain(l) /\ runs[l].since.ret.kind = "None") =>
                   \E n \in 1..Len(Did(l)) :
                       Did(l)[n].what.op = "tx_send" /\ Did(l)[n].what.msg.type = "Log"

\* The same for the checks of the main loop alone.
C32_NotificationOnlyOnChangeInMainLoop ==
    \A l \in 1..Len(runs) :
        (/\ runs[l].at # "gone" /\ ~Cancelled(l) /\ NotifiedSince(l)
         /\ \A n \in 1..Len(Did(l)) :
                Did(l)[n].what.op = "notifier_send" =>
                    ~StartsWith(Did(l)[n].what.title,
                                <<"[">> \o LoopNotes \o <<"] ", "Started monitoring: ">>))
        => runs[l].since.ret.kind = "Some"

\* A poll loop has called notifier.send in its main loop, after a check()
\* that returned Some(change).
C32_Witness ==
    \E l \in 1..Len(runs) :
        /\ runs[l].at # "gone" /\ ~Cancelled(l)
        /\ runs[l].since.ret.kind = "Some"
        /\ \E n \in 1..Len(Did(l)) :
               /\ Did(l)[n].what.op = "notifier_send"
               /\ Did(l)[n].what.title = NotificationTitle(LoopNotes, runs[l].since.ret.message)

\* C34: every status of the status list is Idle or Running, and the list is
\* written only in start_task and stop_task (which write the loops too):
\* no step of a poll loop or of its receiver, a check() that returned Err
\* and the TaskStatusChanged(Error) sent for it included, writes it.
C34_StatusListIdleOrRunning ==
    [][/\ \A k \in 1..Len(task_statuses') : task_statuses'[k] \in {"Idle", "Running"}
       /\ (task_statuses' # task_statuses) => (loops' # loops /\ sop'.name \in {"start", "stop"})
       /\ (runs' # runs /\ loops' = loops) => (task_statuses' = task_statuses)]_vars

\* A poll loop's check() returned Err, its TaskStatusChanged(Error) went
\* into the channel and the receiver took all there was, while the status
\* of its task is Running.
C34_Witness ==
    \E l \in 1..Len(runs) :
        /\ runs[l].at # "gone" /\ ~Cancelled(l)
        /\ runs[l].since.ret.kind = "Err"
        /\ \E n \in 1..Len(Did(l)) :
               /\ Did(l)[n].what.op = "tx_send"
               /\ Did(l)[n].what.msg = TaskStatusChanged(runs[l].task_index, "Error")
        /\ runs[l].chan = <<>> /\ ~IsSome(runs[l].rcv)
        /\ task_statuses[runs[l].task_index + 1] = "Running"

\* C35: the task_index a poll loop was spawned with, which it puts into
\* every TaskStatusChanged and ChangeDetected it sends, is the index at
\* which its task sits in the task list, after a delete of an earlier
\* task has moved the task down too.
C35_EventIndexIsCurrentIndex ==
    \A k \in 1..Len(task_handles) :
        IsSome(task_handles[k]) =>
            loops[Unwrap(task_handles[k])].task_index = k - 1

\* A live poll loop notifies exactly as the notifier it was spawned with
\* tells it to: with none it has called notifier.send after no check(),
\* with one it has called it by the time it comes to its next check()
\* after a check() that returned Some(change).
NotifiesAsSpawned(l) ==
    (runs[l].at # "gone" /\ ~Cancelled(l)) =>
        /\ NotifiedSince(l) => IsSome(runs[l].notifier)
        /\ (/\ AboutToCheckAgain(l) /\ runs[l].since.ret.kind = "Some"
            /\ IsSome(runs[l].notifier)) => NotifiedSince(l)

\* update_notification_config leaves the poll loops, the handles and the
\* statuses as they are; no step gives a poll loop another notifier than
\* the one it has; and a loop that is spawned gets the notifier the app
\* has then.
KeepsCapturedNotifier ==
    /\ sop'.name = "update_notification_config" /\ sop' # sop =>
           UNCHANGED <<runs, loops, task_handles, task_statuses, tasks>>
    /\ notifier' # notifier => UNCHANGED <<runs, loops, task_handles, task_statuses, tasks>>
    /\ \A l \in 1..Len(runs) :
           runs'[l].at # "gone" => runs'[l].notifier = runs[l].notifier
    /\ \A l \in (Len(runs) + 1)..Len(runs') : runs'[l].notifier = notifier

\* C36: a poll loop uses the notifier it was started with for as long as
\* it runs: update_notification_config, replacing or disabling the
\* notifier, changes no running loop's notifier, handle or status, and the
\* new notifier is that of the loops started after it.
C36_LoopKeepsItsNotifier ==
    /\ [](\A l \in 1..Len(runs) : NotifiesAsSpawned(l))
    /\ [][KeepsCapturedNotifier]_vars

\* A poll loop spawned with a notifier has sent a notification for a change
\* after update_notification_config disabled the notifier of the app.
C36_Witness ==
    \E l \in 1..Len(runs) :
        /\ runs[l].at # "gone" /\ ~Cancelled(l)
        /\ IsSome(runs[l].notifier) /\ notifier = None
        /\ task_statuses[runs[l].task_index + 1] = "Running"
        /\ runs[l].since.ret.kind = "Some" /\ NotifiedSince(l)
        /\ sop.name = "update_notification_config"

\* The last check() of an ApiMonitor got a payload in which its selector
\* matched nothing.
ExtractedNothing == fetched.out = "ok" /\ fetched.results = <<>>

\* What check() returns for a selector that matches nothing after it had
\* matched.
IsExtractionFailure(r) == r.kind = "Some" /\ r.message = notes \o <<" - Data extraction failed">>

\* A check() of an ApiMonitor that holds a value: when its selector matches
\* nothing it returns the extraction-failure Change and keeps the value;
\* when it extracts the value held it returns None and keeps the value.
LostMatchKeepsValue ==
    (kind = "Api" /\ Called /\ selector_valid /\ IsSome(prev_last.value)) =>
        /\ ExtractedNothing => (IsExtractionFailure(ret) /\ last_value = prev_last.value)
        /\ (fetched.out = "ok" /\ ResultStr(fetched.results) = prev_last.value) =>
               (ret = RetNone /\ last_value = prev_last.value)

\* The check() that follows one in which the selector matched nothing after
\* it had matched: again nothing, again the extraction-failure Change and
\* the value kept; the value that is held, None.
AfterLostMatch ==
    (/\ kind = "Api" /\ Called /\ IsSome(prev_last.value) /\ ExtractedNothing
     /\ ret' # ret \/ fetched' # fetched \/ prev_last' # prev_last) =>
        /\ (fetched'.out = "ok" /\ fetched'.results = <<>>) =>
               (IsExtractionFailure(ret') /\ last_value' = prev_last.value)
        /\ (fetched'.out = "ok" /\ ResultStr(fetched'.results) = prev_last.value) =>
               ret' = RetNone

\* C37: in an ApiMonitor a selector that matches nothing after it had
\* matched leaves last_value as it is: each check() in a row in which it
\* matches nothing returns the extraction-failure Change, and the first
\* check() after them that extracts the value held returns None.
C37_LostMatchLeavesValue == []LostMatchKeepsValue /\ [][AfterLostMatch]_vars

\* The selector matched nothing in a check() of an ApiMonitor that held a
\* value.
C37_Witness ==
    /\ kind = "Api" /\ Called /\ IsSome(prev_last.value) /\ ExtractedNothing
    /\ IsExtractionFailure(ret) /\ last_value = prev_last.value

\* Two position lists hold, position by position, the same asset, the same
\* direction, and a size and an entry price that are the same when rounded
\* to two decimals.
SameFingerprintFields(l1, l2) ==
    /\ Len(l1) = Len(l2)
    /\ \A n \in 1..Len(l1) :
           /\ l1[n].asset = l2[n].asset
           /\ l1[n].position_type = l2[n].position_type
           /\ Fmt2(l1[n].size) = Fmt2(l2[n].size)
           /\ Fmt2(l1[n].entry_price) = Fmt2(l2[n].entry_price)

\* A check() whose position sub-check gets a list follows one whose
\* position sub-check got a list with the same fingerprint fields.
SameFingerprintAgain ==
    /\ PositionsObserved /\ PositionsObserved'
    /\ SameFingerprintFields(fetched.pos.positions, fetched'.pos.positions)

\* C38: once a fingerprint is stored, a position list that differs from the
\* last one only in leverage, mark price, position value or PnL, or in a
\* size or an entry price that is the same when rounded to two decimals,
\* makes the position sub-check return no Change and leaves the stored
\* fingerprint as it is.
C38_SameFingerprintNoChange ==
    [][SameFingerprintAgain =>
           (ret' = RetNone /\ last_positions_hash' = last_positions_hash)]_vars

\* A position sub-check that held a fingerprint got a list other than the
\* one the fingerprint was made of, and returned None.
C38_Witness ==
    /\ PositionsObserved /\ ret = RetNone
    /\ IsSome(prev_last.positions_hash)
    /\ fetched.pos.positions \in {<<PosBtcLongNear>>, <<PosBtcLongAbout>>}
    /\ \E l \in PositionFeeds :
           /\ prev_last.positions_hash = Some(CalculatePositionsHash(l))
           /\ SameFingerprintFields(l, fetched.pos.positions)

\* The trade sub-check of the last check() failed: its request failed, the
\* payload was no array, or the "tid" of the latest trade was no string.
TradeSubCheckFailed ==
    /\ kind = "Hyperliquid" /\ Called /\ monitor_spot
    /\ \/ fetched.spot.out \in {"transport", "status", "bad_json", "not_array"}
       \/ /\ fetched.spot.out = "ok" /\ fetched.spot.trades # <<>>
          /\ ~IsSome(fetched.spot.trades[1].tid)

\* C39: when the trade sub-check of a HyperliquidMonitor fails, check()
\* returns Err, makes no request for the positions, and leaves the stored
\* trade identifier and the stored position fingerprint as they were.
C39_TradeFailureStopsCheck ==
    TradeSubCheckFailed =>
        /\ ret.kind = "Err"
        /\ fetched.pos = NotRequested
        /\ last_spot_trade_id = prev_last.trade_id
        /\ last_positions_hash = prev_last.positions_hash

\* The trade sub-check of a monitor that watches the positions too, and
\* holds a trade identifier and a fingerprint, failed.
C39_Witness ==
    /\ TradeSubCheckFailed /\ monitor_contract
    /\ IsSome(prev_last.trade_id) /\ IsSome(prev_last.positions_hash)
    /\ ret.kind = "Err"

====
